---- MODULE Spec2Model ----
(***************************************************************************)
(* SecondMe: the memory extraction pipeline (server/extraction.py) over    *)
(* the SQLite conversation store (server/database.py).                     *)
(*                                                                         *)
(* Every database call is one transaction (get_db commits on exit), so     *)
(* each call is one atomic step.  The background task and the request      *)
(* handlers (threadpool) interleave between calls.                         *)
(***************************************************************************)
EXTENDS Integers, Sequences, FiniteSets, TLC

VARIABLES
    clock,      \* datetime.now(), in minutes
    settings,   \* the settings table, as far as the pipeline reads it
    topics,     \* topics table: topic id -> row
    messages,   \* messages table in insertion order; a message's id is its index
    pending,    \* request handlers between create_message and update_topic_active_time
    memories,   \* memories table in insertion order; a memory's id is its index
    vectors,    \* the "memories" vector collection: memory id -> document text
    sched,      \* the background task: instance -> position and locals
    hist        \* history of extraction runs (observation only, never read by an action):
                \*   committed  messages of batches whose run reached mark_topic_processed
                \*   applied    messages of batches with a write to the memories table
                \*   reapplied  a message was in two such batches
                \*   quiet      topics stamped, with no activity recorded since
                \*   unwritten  topics stamped, with no message inserted since

VARIABLES
    flowmos,     \* flowmos table (journal entries) in insertion order
    usage,       \* memory_usage table in insertion order
    turn,        \* the send_message request in progress: position and locals
    collections, \* the "memories" and "flowmos" vector collections as one query sees them
    search       \* the last application of search_memories_and_flowmos

VARIABLES
    users,       \* users table: the ids of the rows it holds
    requests     \* store requests in progress or ended: position, locals, result

storeVars == <<users, requests>>

requestVars == <<flowmos, usage, turn, collections, search, storeVars>>

vars == <<clock, settings, topics, messages, pending, memories, vectors, sched, hist,
          requestVars>>

-----------------------------------------------------------------------------
(* Bounds of the model *)

MaxClock == 5
MaxMessages == 3
MaxEntries == 3
MaxDistance == 1
MaxTopK == 2

(* Program constants *)

DEFAULT_MEMORY_SILENT_MINUTES == 2
DEFAULT_MEMORY_TOP_K == 5
FLOWMO_INTERVAL_MINUTES == 5

NULL == -1

TopicIds == {1, 2}
Instances == {1}
Users == {1, 2}

-----------------------------------------------------------------------------
(* Timestamps: datetime.now().isoformat() is stored and compared as TEXT.  *)
(* A text is a sequence of character codes; the date part is zero-padded   *)
(* to a fixed width.                                                       *)

Digit(d) == 48 + d

isoformat(t) == <<Digit(t \div 10), Digit(t % 10)>>

RECURSIVE TextLess(_, _)
TextLess(a, b) ==
    IF b = <<>> THEN FALSE
    ELSE IF a = <<>> THEN TRUE
    ELSE IF Head(a) # Head(b) THEN Head(a) < Head(b)
    ELSE TextLess(Tail(a), Tail(b))

(* SQL comparison of two TIMESTAMP columns or parameters; a comparison     *)
(* with NULL is not true.                                                  *)
SqlLess(a, b) ==
    /\ a # NULL
    /\ b # NULL
    /\ TextLess(isoformat(a), isoformat(b))

SqlLessEq(a, b) ==
    /\ a # NULL
    /\ b # NULL
    /\ ~TextLess(isoformat(b), isoformat(a))

-----------------------------------------------------------------------------
(* Rows *)

NoTopic == [present |-> FALSE, last_active_at |-> NULL,
            memory_processed_at |-> NULL, last_processed_message_id |-> NULL]

TopicRow(t) == [id |-> t, memory_processed_at |-> topics[t].memory_processed_at,
                last_processed_message_id |-> topics[t].last_processed_message_id]

MessageIds == 1..Len(messages)

MessagesOf(t) == {m \in MessageIds : messages[m].topic_id = t}

MemoryIds == 1..Len(memories)

-----------------------------------------------------------------------------
(* The chat capability's answer.  A text is a sequence of tokens: prose    *)
(* (no braces) or one complete JSON value.  A JSON value is an object with *)
(* "add" and "update" lists, or an array.  A list item is an object or a   *)
(* bare string; a missing or empty field is "" (0 for an id).              *)

AddItem(type, content) == [dict |-> TRUE, type |-> type, id |-> 0, content |-> content]
UpdItem(id, content) == [dict |-> TRUE, type |-> "", id |-> id, content |-> content]
BareItem == [dict |-> FALSE, type |-> "", id |-> 0, content |-> ""]

Object(add, update) == [kind |-> "object", add |-> add, update |-> update]
Array == [kind |-> "array", add |-> <<>>, update |-> <<>>]

Prose == [t |-> "prose", v |-> Array]
Json(v) == [t |-> "json", v |-> v]

ObjNothing == Object(<<>>, <<>>)
ObjAdd == Object(<<AddItem("plan", "a")>>, <<>>)
ObjUpdate == Object(<<AddItem("fact", "")>>, <<UpdItem(1, "u")>>)
ObjUpdateThenBare == Object(<<>>, <<UpdItem(1, "v"), BareItem>>)

Responses ==
    { <<Json(ObjAdd)>>,
      <<Json(ObjUpdate)>>,
      <<Json(ObjUpdateThenBare)>>,
      <<Prose>>,
      <<Prose, Json(ObjNothing), Prose>>,
      <<Json(ObjUpdate), Prose, Json(ObjNothing)>> }

(* json.loads: the text must be exactly one JSON value *)
JsonDecodes(text) == Len(text) = 1 /\ text[1].t = "json"

(* re.search(r'\{[\s\S]*\}'): greedy, from the first "{" to the last "}".  *)
(* Only object tokens hold braces.                                         *)
BraceAt(text) == {i \in 1..Len(text) : text[i].t = "json" /\ text[i].v.kind = "object"}

Min(S) == CHOOSE x \in S : \A y \in S : x <= y
Max(S) == CHOOSE x \in S : \A y \in S : x >= y

JsonMatch(text) ==
    IF BraceAt(text) = {} THEN <<>>
    ELSE SubSeq(text, Min(BraceAt(text)), Max(BraceAt(text)))

(* the parse failure falls off the end of the function: None *)
ParseFailedResultMissing == [kind |-> "none", add |-> <<>>, update |-> <<>>]

ParseFailedResult == Object(<<>>, <<>>)

(* the JSONDecodeError of the fallback is not caught *)
_parse_extraction_result_raises(response) ==
    IF JsonDecodes(response) THEN response[1].v
    ELSE IF JsonMatch(response) # <<>> /\ JsonDecodes(JsonMatch(response))
         THEN JsonMatch(response)[1].v
         ELSE [kind |-> "exception", add |-> <<>>, update |-> <<>>]

_parse_extraction_result(response) ==
    IF JsonDecodes(response) THEN response[1].v
    ELSE IF JsonMatch(response) # <<>> /\ JsonDecodes(JsonMatch(response))
         THEN JsonMatch(response)[1].v
         ELSE ParseFailedResult

-----------------------------------------------------------------------------
(* database.py, the queries of the extraction pipeline *)

(* last_active_at <= ? *)
find_topics_need_processing_inclusive(threshold) ==
    {t \in TopicIds :
        /\ topics[t].present
        /\ topics[t].last_active_at # NULL
        /\ SqlLessEq(topics[t].last_active_at, threshold)
        /\ \/ topics[t].memory_processed_at = NULL
           \/ SqlLess(topics[t].memory_processed_at, topics[t].last_active_at)}

find_topics_need_processing(threshold) ==
    {t \in TopicIds :
        /\ topics[t].present
        /\ topics[t].last_active_at # NULL
        /\ SqlLess(topics[t].last_active_at, threshold)
        /\ \/ topics[t].memory_processed_at = NULL
           \/ SqlLess(topics[t].memory_processed_at, topics[t].last_active_at)}

created_at_of(id) == IF id \in MessageIds THEN messages[id].created_at ELSE NULL

(* created_at < (the cursor message's created_at) *)
get_unprocessed_messages_before(topic) ==
    IF topic.last_processed_message_id # NULL
    THEN {m \in MessagesOf(topic.id) :
            SqlLess(messages[m].created_at, created_at_of(topic.last_processed_message_id))}
    ELSE MessagesOf(topic.id)

(* created_at >= (the cursor message's created_at) *)
get_unprocessed_messages_from(topic) ==
    IF topic.last_processed_message_id # NULL
    THEN {m \in MessagesOf(topic.id) :
            SqlLessEq(created_at_of(topic.last_processed_message_id), messages[m].created_at)}
    ELSE MessagesOf(topic.id)

get_unprocessed_messages(topic) ==
    IF topic.last_processed_message_id # NULL
    THEN {m \in MessagesOf(topic.id) :
            SqlLess(created_at_of(topic.last_processed_message_id), messages[m].created_at)}
    ELSE MessagesOf(topic.id)

(* ORDER BY created_at ASC: every order of the rows that is ascending in   *)
(* created_at; rows with equal created_at come in any order.               *)
Ascending(rows) ==
    {q \in [1..Cardinality(rows) -> rows] :
        /\ \A i, j \in DOMAIN q : i # j => q[i] # q[j]
        /\ \A i, j \in DOMAIN q :
              i < j => SqlLessEq(messages[q[i]].created_at, messages[q[j]].created_at)}

(* the UPDATE sets the cursor and leaves memory_processed_at *)
mark_topic_processed_cursor_only(topic_id, last_message_id) ==
    IF topics[topic_id].present
    THEN [topics EXCEPT ![topic_id].last_processed_message_id = last_message_id]
    ELSE topics

mark_topic_processed(topic_id, last_message_id) ==
    IF topics[topic_id].present
    THEN [topics EXCEPT ![topic_id].memory_processed_at = clock,
                        ![topic_id].last_processed_message_id = last_message_id]
    ELSE topics

(* create_extracted_memory(user_id, content, memory_type, source_topic_id) *)
(* A call binds its arguments or raises TypeError.                         *)
RequiredParameters == {"user_id", "content", "memory_type"}
CallKeywords == {"content", "memory_type", "source_topic_id"}
CallBinds == RequiredParameters \subseteq CallKeywords

create_extracted_memory(content, memory_type, source_topic_id) ==
    Append(memories, [content |-> content, source |-> "chat",
                      memory_type |-> memory_type, source_topic_id |-> source_topic_id])

update_memory_content(memory_id, content) ==
    IF memory_id \in MemoryIds
    THEN [memories EXCEPT ![memory_id].content = content]
    ELSE memories

MemoryTypes == {"personal", "preference", "fact", "plan"}

-----------------------------------------------------------------------------
(* The background task's locals (MemoryExtractionTask._check_and_extract   *)
(* and _extract_topic_memories).  The fields from "outcome" on observe the *)
(* run; no action reads them.                                              *)

NoRow == [id |-> 0, memory_processed_at |-> NULL, last_processed_message_id |-> NULL]

Idle ==
    [pc |-> "sleep", settings |-> [chat |-> FALSE, embedding |-> FALSE],
     threshold |-> NULL, todo |-> <<>>, topic |-> NoRow, new_messages |-> <<>>,
     response |-> <<>>, result |-> ObjNothing, i |-> 1, back |-> "add",
     outcome |-> "none", selected |-> {}, visited |-> {},
     chat_raised |-> FALSE, chat_returned |-> FALSE, handled |-> {},
     writes |-> 0, vector_writes |-> 0, vector_raised |-> FALSE]

Range(q) == {q[k] : k \in DOMAIN q}

(* new_messages[0] *)
First(q) == q[1]

(* new_messages[-1] *)
Last(q) == q[Len(q)]

(* mark_topic_processed moved up, before the two loops *)
StepsCommitFirst == <<"commit", "add", "update">>

(* The statements of _extract_topic_memories after the parse, in order *)
Steps == <<"add", "update", "commit">>

StepAfter(p) ==
    LET k == CHOOSE n \in DOMAIN Steps : Steps[n] = p
    IN  IF k = Len(Steps) THEN "return" ELSE Steps[k + 1]

(* no try/except in the topic loop: an exception ends the cycle *)
ReturnOrAbort(l, outcome) ==
    [l EXCEPT !.pc = "loop", !.outcome = outcome, !.i = 1, !.back = "add",
              !.todo = IF outcome = "raised" THEN <<>> ELSE @]

(* return, or an exception caught by the topic loop of _check_and_extract: *)
(* the loop goes on with the next topic                                    *)
Return(l, outcome) == [l EXCEPT !.pc = "loop", !.outcome = outcome, !.i = 1, !.back = "add"]

Goto(l, p) == IF p = "return" THEN Return(l, "completed") ELSE [l EXCEPT !.pc = p, !.i = 1]

(* lines 214-216: parse, then log len(result.get('add', [])) *)
Parsed(l, response) ==
    LET result == _parse_extraction_result(response)
        m == [l EXCEPT !.response = response, !.result = result]
    IN  IF result.kind # "object" THEN Return(m, "raised") ELSE Goto(m, Steps[1])

(* the handler logs and does not return: the run goes on with no text *)
chat_completion_failed_goes_on(l) == Parsed(l, <<>>)

(* lines 210-212: except Exception: log and return *)
chat_completion_failed(l) == Return(l, "chat_failed")

(* the call is skipped and the run goes on to mark the topic processed *)
no_chat_provider_marks(l) == [l EXCEPT !.pc = "commit", !.outcome = "unconfigured"]

(* lines 200-202: no provider or model: log and return *)
no_chat_provider(l) == Return(l, "unconfigured")

(* the vector write's exception leaves the run *)
vector_write_failed_raises(l) == Return([l EXCEPT !.vector_raised = TRUE], "raised")

(* lines 250-251 and 272-273: except Exception: log; the loop goes on *)
vector_write_failed(l) == [l EXCEPT !.pc = l.back, !.i = @ + 1, !.vector_raised = TRUE]

-----------------------------------------------------------------------------
(* memory.py: the two vector collections and the joint search.  For one    *)
(* query embedding a record of a collection is its distance to the query;  *)
(* a record's id is its index.  The collections keep no owner: the owner   *)
(* of a record is the user_id of its row in the memories or flowmos table. *)

NoCollections == [memories |-> <<>>, flowmos |-> <<>>]

NoSearch == [requester |-> 0, top_k |-> 0, results |-> <<>>]

OwnerOf(item) == collections[item.collection][item.id].owner

(* collection.query(n_results = n): the n nearest records, nearest first;  *)
(* records at the same distance come in any order                          *)
query(name, n_results) ==
    LET records == collections[name]
        n == IF n_results < Len(records) THEN n_results ELSE Len(records)
    IN  {q \in [1..n -> DOMAIN records] :
            /\ \A i, j \in 1..n : i # j => q[i] # q[j]
            /\ \A i, j \in 1..n : i < j => records[q[i]].distance <= records[q[j]].distance
            /\ \A i \in 1..n : \A e \in DOMAIN records \ Range(q) :
                    records[q[i]].distance <= records[e].distance}

Formatted(name, q) ==
    [i \in DOMAIN q |-> [collection |-> name, id |-> q[i],
                         distance |-> collections[name][q[i]].distance]]

(* lines 68-96, with no exclude_ids *)
search_memories(top_k) == {Formatted("memories", q) : q \in query("memories", top_k)}

(* lines 150-169 *)
search_flowmos(top_k) == {Formatted("flowmos", q) : q \in query("flowmos", top_k)}

(* list.sort(key = distance): stable *)
RECURSIVE SortedInsert(_, _)
SortedInsert(item, sorted) ==
    IF sorted = <<>> THEN <<item>>
    ELSE IF item.distance < Head(sorted).distance THEN <<item>> \o sorted
    ELSE <<Head(sorted)>> \o SortedInsert(item, Tail(sorted))

RECURSIVE SortByDistance(_)
SortByDistance(items) ==
    IF items = <<>> THEN <<>>
    ELSE SortedInsert(Last(items), SortByDistance(SubSeq(items, 1, Len(items) - 1)))

Truncate(items, n) == SubSeq(items, 1, IF n < Len(items) THEN n ELSE Len(items))

(* the lists are concatenated and cut, never sorted *)
search_memories_and_flowmos_unsorted(top_k) ==
    {Truncate(m \o f, top_k) : m \in search_memories(top_k * 2),
                               f \in search_flowmos(top_k * 2)}

(* lines 172-182 *)
search_memories_and_flowmos(top_k) ==
    {Truncate(SortByDistance(m \o f), top_k) : m \in search_memories(top_k * 2),
                                               f \in search_flowmos(top_k * 2)}

-----------------------------------------------------------------------------
(* The settings table as the deployment left it: the gate, the default     *)
(* provider and models of init_default_provider (or none), and             *)
(* memory_silent_minutes.                                                  *)
Deployed(silences) ==
    \E enabled, provider \in BOOLEAN, silent \in silences :
        settings = [memory_extraction_enabled |-> enabled, chat |-> provider,
                    embedding |-> provider, memory_silent_minutes |-> silent]

Empty ==
    /\ clock = DEFAULT_MEMORY_SILENT_MINUTES
    /\ topics = [t \in TopicIds |-> NoTopic]
    /\ messages = <<>>
    /\ pending = [t \in TopicIds |-> 0]
    /\ memories = <<>>
    /\ vectors = [id \in {} |-> ""]
    /\ sched = [s \in Instances |-> Idle]
    /\ hist = [committed |-> {}, applied |-> {}, reapplied |-> FALSE,
               quiet |-> {}, unwritten |-> {}]

(* send_message's locals, kept after the request ended until the next one *)
(* starts; "outcome" observes how it ended                                 *)
NoTurn ==
    [pc |-> "idle", topic |-> 0, user_message |-> 0, now |-> NULL, created |-> FALSE,
     context |-> {}, retrieval |-> "none", memories_used |-> <<>>,
     system_prompt |-> FALSE, assistant_message |-> 0, outcome |-> "none"]

(* no request in progress, nothing in the journal, the usage table or the  *)
(* vector collections                                                      *)
NoRequest ==
    /\ flowmos = <<>>
    /\ usage = <<>>
    /\ turn = NoTurn
    /\ collections = NoCollections
    /\ search = NoSearch
    /\ users = Users
    /\ requests = <<>>

Init == Deployed({0, DEFAULT_MEMORY_SILENT_MINUTES}) /\ Empty /\ NoRequest

InitDefault == Deployed({DEFAULT_MEMORY_SILENT_MINUTES}) /\ Empty /\ NoRequest

(* time passes *)
Tick ==
    /\ clock < MaxClock
    /\ clock' = clock + 1
    /\ UNCHANGED <<settings, topics, messages, pending, memories, vectors, sched, hist,
                   requestVars>>

-----------------------------------------------------------------------------
(* Request handlers *)

create_topic(t) ==
    /\ ~topics[t].present
    /\ topics' = [topics EXCEPT ![t].present = TRUE]
    /\ UNCHANGED <<clock, settings, messages, pending, memories, vectors, sched, hist,
                   requestVars>>

(* send_message: database.create_message, the first of its two writes *)
create_message(t) ==
    /\ topics[t].present
    /\ Len(messages) < MaxMessages
    /\ messages' = Append(messages, [topic_id |-> t, created_at |-> clock])
    /\ pending' = [pending EXCEPT ![t] = @ + 1]
    /\ hist' = [hist EXCEPT !.unwritten = @ \ {t}]
    /\ UNCHANGED <<clock, settings, topics, memories, vectors, sched,
                   requestVars>>

(* send_message: database.update_topic_active_time, its second write *)
update_topic_active_time(t) ==
    /\ pending[t] > 0
    /\ pending' = [pending EXCEPT ![t] = @ - 1]
    /\ topics' = [topics EXCEPT ![t].last_active_at = clock]
    /\ hist' = [hist EXCEPT !.quiet = @ \ {t}]
    /\ UNCHANGED <<clock, settings, messages, memories, vectors, sched,
                   requestVars>>

(* POST /api/memories: a manual memory (the model follows one).            *)
(* The handler passes five arguments                                       *)
(* to store_memory_vector, which takes four: the TypeError is swallowed    *)
(* and no vector is written.                                               *)
create_memory ==
    /\ memories = <<>>
    /\ memories' = Append(memories, [content |-> "m", source |-> "manual",
                                     memory_type |-> "chat", source_topic_id |-> NULL])
    /\ UNCHANGED <<clock, settings, topics, messages, pending, vectors, sched, hist,
                   requestVars>>

-----------------------------------------------------------------------------
(* The background task *)

SeqsOf(S) == {q \in [1..Cardinality(S) -> S] : \A i, j \in DOMAIN q : i # j => q[i] # q[j]}

(* _check_and_extract, lines 148-160: settings, the gate, the threshold    *)
(* and the topics to process (rows as read, in any order)                  *)
(* the gate is not read *)
extraction_enabled_ignored == TRUE

(* lines 150-153: extraction_enabled.lower() == "true" *)
extraction_enabled == settings.memory_extraction_enabled

CheckAndExtract(s) ==
    /\ sched[s].pc = "sleep"
    /\ IF ~extraction_enabled
       THEN sched' = [sched EXCEPT ![s] = [Idle EXCEPT !.outcome = "disabled"]]
       ELSE LET threshold == clock - settings.memory_silent_minutes
                found == find_topics_need_processing(threshold)
            IN  \E q \in SeqsOf(found) :
                    sched' = [sched EXCEPT ![s] =
                        [Idle EXCEPT !.pc = "loop",
                                     !.settings = [chat |-> settings.chat,
                                                   embedding |-> settings.embedding],
                                     !.threshold = threshold,
                                     !.todo = [k \in DOMAIN q |-> TopicRow(q[k])],
                                     !.selected = found]]
    /\ UNCHANGED <<clock, settings, topics, messages, pending, memories, vectors, hist,
                   requestVars>>

(* the topic loop is exhausted: back to asyncio.sleep *)
EndCycle(s) ==
    /\ sched[s].pc = "loop"
    /\ sched[s].todo = <<>>
    /\ sched' = [sched EXCEPT ![s] = Idle]
    /\ UNCHANGED <<clock, settings, topics, messages, pending, memories, vectors, hist,
                   requestVars>>

(* _extract_topic_memories, lines 170-202: the batch, then the provider check *)
ExtractTopic(s) ==
    /\ sched[s].pc = "loop"
    /\ sched[s].todo # <<>>
    /\ LET l == sched[s]
           topic == Head(l.todo)
       IN  \E batch \in Ascending(get_unprocessed_messages(topic)) :
             LET m == [l EXCEPT !.todo = Tail(l.todo), !.topic = topic,
                                !.new_messages = batch, !.response = <<>>,
                                !.result = ObjNothing, !.i = 1, !.back = "add",
                                !.visited = @ \cup {topic.id},
                                !.chat_raised = FALSE, !.chat_returned = FALSE,
                                !.handled = {},
                                !.writes = 0, !.vector_writes = 0,
                                !.vector_raised = FALSE]
             IN  sched' = [sched EXCEPT ![s] =
                    IF batch = <<>> THEN Return(m, "empty")
                    ELSE IF ~l.settings.chat THEN no_chat_provider(m)
                    ELSE [m EXCEPT !.pc = "chat", !.outcome = "none"]]
    /\ UNCHANGED <<clock, settings, topics, messages, pending, memories, vectors, hist,
                   requestVars>>

(* lines 204-212: ai_client.chat_completion raises *)
ChatRaises(s) ==
    /\ sched[s].pc = "chat"
    /\ sched' = [sched EXCEPT ![s] =
            chat_completion_failed([sched[s] EXCEPT !.chat_raised = TRUE])]
    /\ UNCHANGED <<clock, settings, topics, messages, pending, memories, vectors, hist,
                   requestVars>>

(* lines 204-216: ai_client.chat_completion returns a text *)
ChatReturns(s) ==
    /\ sched[s].pc = "chat"
    /\ \E response \in Responses :
          sched' = [sched EXCEPT ![s] =
              Parsed([sched[s] EXCEPT !.chat_returned = TRUE], response)]
    /\ UNCHANGED <<clock, settings, topics, messages, pending, memories, vectors, hist,
                   requestVars>>

(* the run's first write to the memories table: its batch is applied, and *)
(* reapplied if one of its messages was in a batch applied before          *)
Applying(l) ==
    IF l.writes > 0 THEN hist
    ELSE [hist EXCEPT !.applied = @ \cup Range(l.new_messages),
                      !.reapplied = @ \/ Range(l.new_messages) \cap hist.applied # {}]

(* after the relational write: lines 234-251 and 261-273 run only with an  *)
(* embedding provider and model                                            *)
AfterWrite(l, loop) ==
    IF l.settings.embedding
    THEN [l EXCEPT !.pc = "vector", !.back = loop, !.writes = 1]
    ELSE [l EXCEPT !.i = @ + 1, !.writes = 1]

(* lines 218-232: one item of result["add"] *)
ApplyAdd(s) ==
    /\ sched[s].pc = "add"
    /\ LET l == sched[s] IN
       IF l.i > Len(l.result.add)
       THEN /\ sched' = [sched EXCEPT ![s] =
                    Goto([l EXCEPT !.handled = @ \cup {"add"}], StepAfter("add"))]
            /\ UNCHANGED <<memories, hist>>
       ELSE LET mem == l.result.add[l.i] IN
            IF ~mem.dict
            THEN /\ sched' = [sched EXCEPT ![s] = Return(l, "raised")]
                 /\ UNCHANGED <<memories, hist>>
            ELSE IF mem.content = ""
            THEN /\ sched' = [sched EXCEPT ![s].i = @ + 1]
                 /\ UNCHANGED <<memories, hist>>
            ELSE IF ~CallBinds
            THEN /\ sched' = [sched EXCEPT ![s] = Return(l, "raised")]
                 /\ UNCHANGED <<memories, hist>>
            ELSE /\ memories' = create_extracted_memory(mem.content,
                        IF mem.type \in MemoryTypes THEN mem.type ELSE "fact", l.topic.id)
                 /\ hist' = Applying(l)
                 /\ sched' = [sched EXCEPT ![s] = AfterWrite(l, "add")]
    /\ UNCHANGED <<clock, settings, topics, messages, pending, vectors,
                   requestVars>>

(* lines 253-259: one item of result["update"] *)
ApplyUpdate(s) ==
    /\ sched[s].pc = "update"
    /\ LET l == sched[s] IN
       IF l.i > Len(l.result.update)
       THEN /\ sched' = [sched EXCEPT ![s] =
                    Goto([l EXCEPT !.handled = @ \cup {"update"}], StepAfter("update"))]
            /\ UNCHANGED <<memories, hist>>
       ELSE LET mem == l.result.update[l.i] IN
            IF ~mem.dict
            THEN /\ sched' = [sched EXCEPT ![s] = Return(l, "raised")]
                 /\ UNCHANGED <<memories, hist>>
            ELSE IF mem.id = 0 \/ mem.content = ""
            THEN /\ sched' = [sched EXCEPT ![s].i = @ + 1]
                 /\ UNCHANGED <<memories, hist>>
            ELSE /\ memories' = update_memory_content(mem.id, mem.content)
                 /\ IF mem.id \in MemoryIds
                    THEN /\ hist' = Applying(l)
                         /\ sched' = [sched EXCEPT ![s] = AfterWrite(l, "update")]
                    ELSE /\ hist' = hist
                         /\ sched' = [sched EXCEPT ![s] =
                                [AfterWrite(l, "update") EXCEPT !.writes = l.writes]]
    /\ UNCHANGED <<clock, settings, topics, messages, pending, vectors,
                   requestVars>>

CurrentItem(l) == IF l.back = "add" THEN l.result.add[l.i] ELSE l.result.update[l.i]

(* lines 239-249 and 266-271: the embedding and the vector write succeed.  *)
(* collection.add stores the new memory's vector; collection.update        *)
(* rewrites the vector of an id the collection holds.                      *)
StoreVector(s) ==
    /\ sched[s].pc = "vector"
    /\ LET l == sched[s]
           id == IF l.back = "add" THEN Len(memories) ELSE CurrentItem(l).id
       IN  /\ vectors' = IF l.back = "add" \/ id \in DOMAIN vectors
                         THEN (id :> CurrentItem(l).content) @@ vectors
                         ELSE vectors
           /\ sched' = [sched EXCEPT ![s] =
                  [l EXCEPT !.pc = l.back, !.i = @ + 1,
                            !.vector_writes = IF vectors' # vectors THEN 1 ELSE @]]
    /\ UNCHANGED <<clock, settings, topics, messages, pending, memories, hist,
                   requestVars>>

(* lines 250-251 and 272-273: the embedding or the vector write raises;    *)
(* the exception is logged and the loop goes on                            *)
VectorRaises(s) ==
    /\ sched[s].pc = "vector"
    /\ sched' = [sched EXCEPT ![s] = vector_write_failed(sched[s])]
    /\ UNCHANGED <<clock, settings, topics, messages, pending, memories, vectors, hist,
                   requestVars>>

Undecodable(text) ==
    /\ ~JsonDecodes(text)
    /\ ~(JsonMatch(text) # <<>> /\ JsonDecodes(JsonMatch(text)))

(* lines 275-276: mark_topic_processed(topic["id"], new_messages[-1]["id"]) *)
Commit(s) ==
    /\ sched[s].pc = "commit"
    /\ LET l == sched[s]
       IN  /\ topics' = mark_topic_processed(l.topic.id, Last(l.new_messages))
           /\ sched' = [sched EXCEPT ![s] = Goto(l, StepAfter("commit"))]
           /\ hist' = [hist EXCEPT
                  !.committed = @ \cup Range(l.new_messages),
                  !.quiet = @ \cup {l.topic.id},
                  !.unwritten = @ \cup {l.topic.id}]
    /\ UNCHANGED <<clock, settings, messages, pending, memories, vectors,
                   requestVars>>

-----------------------------------------------------------------------------
Next ==
    \/ Tick
    \/ create_topic(1)
    \/ \E t \in TopicIds : create_message(t)
    \/ \E t \in TopicIds : update_topic_active_time(t)
    \/ create_memory
    \/ \E s \in Instances : CheckAndExtract(s)
    \/ \E s \in Instances : EndCycle(s)
    \/ \E s \in Instances : ExtractTopic(s)
    \/ \E s \in Instances : ChatRaises(s)
    \/ \E s \in Instances : ChatReturns(s)
    \/ \E s \in Instances : ApplyAdd(s)
    \/ \E s \in Instances : ApplyUpdate(s)
    \/ \E s \in Instances : StoreVector(s)
    \/ \E s \in Instances : VectorRaises(s)
    \/ \E s \in Instances : Commit(s)

Spec == Init /\ [][Next]_vars

(* the same with a second topic *)
NextTopics == Next \/ create_topic(2)

SpecTopics == InitDefault /\ [][NextTopics]_vars

-----------------------------------------------------------------------------
(* The task's life: _run_loop around the cycle, stop() and the end of the  *)
(* process.  No statement of a cycle suspends the coroutine (the database  *)
(* and capability calls are synchronous), so the event loop runs stop()    *)
(* only while the task is in asyncio.sleep, and the cancellation is        *)
(* delivered there.  The process itself can end at any statement.          *)

(* the exception leaves _run_loop: the task is done *)
cycle_failed_ends_task(l) == [Idle EXCEPT !.pc = "stopped", !.outcome = "cycle_raised"]

(* lines 139-144: except Exception: log, then asyncio.sleep *)
cycle_failed(l) == [Idle EXCEPT !.outcome = "cycle_raised"]

(* lines 148-160: get_all_settings, int() or find_topics_need_processing   *)
(* raises; nothing of the cycle was written                                *)
CycleRaises(s) ==
    /\ sched[s].pc = "sleep"
    /\ sched' = [sched EXCEPT ![s] = cycle_failed(sched[s])]
    /\ UNCHANGED <<clock, settings, topics, messages, pending, memories, vectors, hist,
                   requestVars>>

(* stop(), lines 127-133: running is cleared, the task cancelled in its    *)
(* sleep and awaited                                                       *)
Stop(s) ==
    /\ sched[s].pc = "sleep"
    /\ sched' = [sched EXCEPT ![s].pc = "stopped"]
    /\ UNCHANGED <<clock, settings, topics, messages, pending, memories, vectors, hist,
                   requestVars>>

(* the process ends between two statements of a cycle *)
Exit(s) ==
    /\ sched[s].pc \notin {"sleep", "stopped"}
    /\ sched' = [sched EXCEPT ![s].pc = "stopped"]
    /\ UNCHANGED <<clock, settings, topics, messages, pending, memories, vectors, hist,
                   requestVars>>

NextTask ==
    \/ Next
    \/ \E s \in Instances : CycleRaises(s)
    \/ \E s \in Instances : Stop(s)
    \/ \E s \in Instances : Exit(s)

SpecTask == InitDefault /\ [][NextTask]_vars

-----------------------------------------------------------------------------
(* start() and stop() of one MemoryExtractionTask object, called in any    *)
(* order by coroutines of one event loop.  requests holds the object:      *)
(* running, _task (NULL or the index of a task in tasks), the tasks ever   *)
(* created with their state, and the tasks that a stop() call is awaiting. *)
(* A task is "created" until it first runs, "sleeping" in asyncio.sleep,   *)
(* "cancelling" once cancel() was called on it, and "done" at its end.     *)

MaxTasks == 3

NoTask ==
    [running |-> FALSE, _task |-> NULL, tasks |-> <<>>, awaited |-> {}, cycles |-> 0,
     last |-> "none"]

(* no check of running: a task is created by every call *)
start_unguarded(o) ==
    [o EXCEPT !.running = TRUE, !.tasks = Append(@, "created"),
              !._task = Len(o.tasks) + 1, !.last = "started"]

(* start, lines 116-122 *)
start(o) ==
    IF o.running THEN [o EXCEPT !.last = "start_returned"]
    ELSE [o EXCEPT !.running = TRUE, !.tasks = Append(@, "created"),
                   !._task = Len(o.tasks) + 1, !.last = "started"]

(* Task.cancel(): a task that is not done gets CancelledError where it     *)
(* waits, or before its first step                                         *)
cancel(state) == IF state = "done" THEN "done" ELSE "cancelling"

(* stop, lines 125-131, up to the await *)
stop(o) ==
    IF o._task = NULL THEN [o EXCEPT !.running = FALSE, !.last = "stopped_nothing"]
    ELSE [o EXCEPT !.running = FALSE,
                   !.tasks[o._task] = cancel(@),
                   !.awaited = @ \cup {o._task},
                   !.last = "stopping"]

InitLife ==
    /\ Deployed({DEFAULT_MEMORY_SILENT_MINUTES})
    /\ Empty
    /\ flowmos = <<>>
    /\ usage = <<>>
    /\ turn = NoTurn
    /\ collections = NoCollections
    /\ search = NoSearch
    /\ users = Users
    /\ requests = NoTask

StartCall ==
    /\ requests.running \/ Len(requests.tasks) < MaxTasks
    /\ requests' = start(requests)
    /\ UNCHANGED <<clock, settings, topics, messages, pending, memories, vectors, sched,
                   hist, flowmos, usage, turn, collections, search, users>>

StopCall ==
    /\ requests' = stop(requests)
    /\ UNCHANGED <<clock, settings, topics, messages, pending, memories, vectors, sched,
                   hist, flowmos, usage, turn, collections, search, users>>

(* lines 131-134: the awaited task has ended; CancelledError is swallowed *)
StopReturns(id) ==
    /\ id \in requests.awaited
    /\ requests.tasks[id] = "done"
    /\ requests' = [requests EXCEPT !.awaited = @ \ {id}, !.last = "stopped"]
    /\ UNCHANGED <<clock, settings, topics, messages, pending, memories, vectors, sched,
                   hist, flowmos, usage, turn, collections, search, users>>

(* _run_loop, lines 138-144: the task is given the event loop at its start *)
(* or when its sleep is over; it tests running, runs a cycle and sleeps,   *)
(* or returns                                                              *)
TaskRuns(id) ==
    /\ id \in DOMAIN requests.tasks
    /\ requests.tasks[id] \in {"created", "sleeping"}
    /\ requests' =
          IF requests.running
          THEN [requests EXCEPT !.tasks[id] = "sleeping",
                                !.cycles = IF @ < MaxTasks THEN @ + 1 ELSE @,
                                !.last = "cycle"]
          ELSE [requests EXCEPT !.tasks[id] = "done", !.last = "returned"]
    /\ UNCHANGED <<clock, settings, topics, messages, pending, memories, vectors, sched,
                   hist, flowmos, usage, turn, collections, search, users>>

(* CancelledError is raised in the task: not an Exception, it ends the loop *)
TaskCancelled(id) ==
    /\ id \in DOMAIN requests.tasks
    /\ requests.tasks[id] = "cancelling"
    /\ requests' = [requests EXCEPT !.tasks[id] = "done", !.last = "cancelled"]
    /\ UNCHANGED <<clock, settings, topics, messages, pending, memories, vectors, sched,
                   hist, flowmos, usage, turn, collections, search, users>>

NextLife ==
    \/ StartCall
    \/ StopCall
    \/ \E id \in 1..MaxTasks : StopReturns(id)
    \/ \E id \in 1..MaxTasks : TaskRuns(id)
    \/ \E id \in 1..MaxTasks : TaskCancelled(id)

SpecLife == InitLife /\ [][NextLife]_vars

-----------------------------------------------------------------------------
(* Two server processes on one database file: each runs the lifespan and   *)
(* with it its own MemoryExtractionTask, and their statements interleave.  *)
(* The store holds a manual memory and a topic whose last message arrived  *)
(* after the extraction of the ones before it; the extraction is enabled   *)
(* and a chat provider configured.                                         *)

Schedulers == {1, 2}

InitTwo ==
    /\ settings = [memory_extraction_enabled |-> TRUE, chat |-> TRUE, embedding |-> FALSE,
                   memory_silent_minutes |-> 0]
    /\ clock = DEFAULT_MEMORY_SILENT_MINUTES + 2
    /\ topics = [t \in TopicIds |->
                    IF t = 1 THEN [present |-> TRUE, last_active_at |-> clock - 1,
                                   memory_processed_at |-> clock - 2,
                                   last_processed_message_id |-> 1]
                    ELSE NoTopic]
    /\ messages = <<[topic_id |-> 1, created_at |-> clock - 3],
                    [topic_id |-> 1, created_at |-> clock - 1]>>
    /\ pending = [t \in TopicIds |-> 0]
    /\ memories = <<[content |-> "m", source |-> "manual",
                     memory_type |-> "chat", source_topic_id |-> NULL]>>
    /\ vectors = [id \in {} |-> ""]
    /\ sched = [s \in Schedulers |-> Idle]
    /\ hist = [committed |-> {1}, applied |-> {}, reapplied |-> FALSE,
               quiet |-> {}, unwritten |-> {}]
    /\ NoRequest

NextTwo ==
    \/ Tick
    \/ \E t \in TopicIds : create_message(t)
    \/ \E t \in TopicIds : update_topic_active_time(t)
    \/ \E s \in Schedulers : CheckAndExtract(s)
    \/ \E s \in Schedulers : EndCycle(s)
    \/ \E s \in Schedulers : ExtractTopic(s)
    \/ \E s \in Schedulers : ChatRaises(s)
    \/ \E s \in Schedulers : ChatReturns(s)
    \/ \E s \in Schedulers : ApplyAdd(s)
    \/ \E s \in Schedulers : ApplyUpdate(s)
    \/ \E s \in Schedulers : Commit(s)

SpecTwo == InitTwo /\ [][NextTwo]_vars

-----------------------------------------------------------------------------
(* The joint search applied to stored collections *)

OwnerOfRow(i) == IF i % 2 = 1 THEN 1 ELSE 2

Records ==
    UNION {{[i \in 1..n |-> [owner |-> OwnerOfRow(i), distance |-> d[i]]] :
                d \in [1..n -> 0..MaxDistance]} : n \in 0..MaxEntries}

InitRank ==
    /\ settings = [memory_extraction_enabled |-> TRUE, chat |-> TRUE, embedding |-> TRUE,
                   memory_silent_minutes |-> DEFAULT_MEMORY_SILENT_MINUTES]
    /\ Empty
    /\ flowmos = <<>>
    /\ usage = <<>>
    /\ turn = NoTurn
    /\ search = NoSearch
    /\ users = Users
    /\ requests = <<>>
    /\ collections \in [memories : Records, flowmos : Records]

(* search_memories_and_flowmos(query_embedding, top_k) for a chat turn of user u *)
Search(u, top_k) ==
    /\ search = NoSearch
    /\ \E results \in search_memories_and_flowmos(top_k) :
          search' = [requester |-> u, top_k |-> top_k, results |-> results]
    /\ UNCHANGED <<clock, settings, topics, messages, pending, memories, vectors, sched,
                   hist, flowmos, usage, turn, collections, storeVars>>

NextRank == \E u \in Users, top_k \in 1..MaxTopK : Search(u, top_k)

SpecRank == InitRank /\ [][NextRank]_vars

-----------------------------------------------------------------------------
(* Rows and their vector records under create and delete requests.  Here   *)
(* the memories and flowmos tables are sequences of rows [user_id,         *)
(* present] (a deleted row keeps its place: ids are never reused), a       *)
(* collection is the set of the ids it holds a record for, and requests    *)
(* holds the last request as it ended.  A handler is one step.  The two    *)
(* tables together hold at most MaxEntries rows.                           *)

Admin == 1

TopicOwner(t) == t

Row(u) == [user_id |-> u, present |-> TRUE]

Present(rows) == {id \in DOMAIN rows : rows[id].present}

OwnedBy(rows, u) == {id \in Present(rows) : rows[id].user_id = u}

Deleted(rows, ids) ==
    [id \in DOMAIN rows |-> IF id \in ids THEN [rows[id] EXCEPT !.present = FALSE]
                                          ELSE rows[id]]

Ended(op, u, id, had_vector, status) ==
    <<[op |-> op, user |-> u, id |-> id, had_vector |-> had_vector,
       library_raised |-> FALSE, raised |-> FALSE, status |-> status]>>

(* collection.delete(ids=[id]) of an id the collection does not hold: the  *)
(* library returns or raises                                               *)
LibraryRaises(held) == IF held THEN {FALSE} ELSE BOOLEAN

(* the library's exception leaves delete_memory_vector *)
vector_delete_failed_raises(r) ==
    [r EXCEPT ![1].library_raised = TRUE, ![1].raised = TRUE, ![1].status = 500]

(* delete_memory_vector / delete_flowmo_vector: except Exception: pass *)
vector_delete_failed(r) == [r EXCEPT ![1].library_raised = TRUE]

delete_memory_vector(id) == [collections EXCEPT !.memories = @ \ {id}]

delete_flowmo_vector(id) == [collections EXCEPT !.flowmos = @ \ {id}]

(* store_memory_vector is called with five arguments and takes four *)
StoreMemoryBinds == FALSE

InitStore ==
    /\ settings = [memory_extraction_enabled |-> FALSE, chat |-> TRUE, embedding |-> TRUE,
                   memory_silent_minutes |-> DEFAULT_MEMORY_SILENT_MINUTES]
    /\ clock = 0
    /\ topics = [t \in TopicIds |-> [NoTopic EXCEPT !.present = TRUE]]
    /\ messages = <<>>
    /\ pending = [t \in TopicIds |-> 0]
    /\ memories = <<>>
    /\ vectors = [id \in {} |-> ""]
    /\ sched = [s \in Instances |-> Idle]
    /\ hist = [committed |-> {}, applied |-> {}, reapplied |-> FALSE,
               quiet |-> {}, unwritten |-> {}]
    /\ flowmos = <<>>
    /\ usage = <<>>
    /\ turn = NoTurn
    /\ collections = [memories |-> {}, flowmos |-> {}]
    /\ search = NoSearch
    /\ users = Users
    /\ requests = <<>>

(* POST /api/memories: the row, then the vector in try/except *)
PostMemory(u) ==
    /\ u \in users
    /\ Len(memories) + Len(flowmos) < MaxEntries
    /\ memories' = Append(memories, Row(u))
    /\ \E stored \in IF StoreMemoryBinds THEN BOOLEAN ELSE {FALSE} :
          collections' = IF stored
                         THEN [collections EXCEPT !.memories = @ \cup {Len(memories) + 1}]
                         ELSE collections
    /\ requests' = Ended("create_memory", u, Len(memories) + 1, FALSE, 200)
    /\ UNCHANGED <<clock, settings, topics, messages, pending, vectors, sched, hist,
                   flowmos, usage, turn, search, users>>

(* POST /api/flowmos: the row, then get_embedding and store_flowmo_vector  *)
(* in try/except                                                           *)
PostFlowmo(u) ==
    /\ u \in users
    /\ Len(memories) + Len(flowmos) < MaxEntries
    /\ flowmos' = Append(flowmos, Row(u))
    /\ \E stored \in IF settings.embedding THEN BOOLEAN ELSE {FALSE} :
          collections' = IF stored
                         THEN [collections EXCEPT !.flowmos = @ \cup {Len(flowmos) + 1}]
                         ELSE collections
    /\ requests' = Ended("create_flowmo", u, Len(flowmos) + 1, FALSE, 200)
    /\ UNCHANGED <<clock, settings, topics, messages, pending, memories, vectors, sched,
                   hist, usage, turn, search, users>>

(* DELETE /api/memories/{memory_id} *)
DeleteMemory(u, id) ==
    /\ u \in users
    /\ id \in DOMAIN memories
    /\ LET held == id \in collections.memories IN
       IF id \notin OwnedBy(memories, u)
       THEN /\ requests' = Ended("delete_memory", u, id, held, 403)
            /\ UNCHANGED <<memories, collections>>
       ELSE \E library_raises \in LibraryRaises(held) :
              LET r == IF library_raises
                       THEN vector_delete_failed(Ended("delete_memory", u, id, held, 200))
                       ELSE Ended("delete_memory", u, id, held, 200)
              IN  /\ requests' = r
                  /\ IF r[1].raised
                     THEN UNCHANGED <<memories, collections>>
                     ELSE /\ collections' = delete_memory_vector(id)
                          /\ memories' = Deleted(memories, {id})
    /\ UNCHANGED <<clock, settings, topics, messages, pending, vectors, sched, hist,
                   flowmos, usage, turn, search, users>>

(* DELETE /api/memories/all: every row, then clear_all_vectors *)
DeleteAllMemories ==
    /\ Present(memories) # {}
    /\ memories' = Deleted(memories, DOMAIN memories)
    /\ collections' = [collections EXCEPT !.memories = {}]
    /\ requests' = Ended("delete_all_memories", 0, 0, collections.memories # {}, 200)
    /\ UNCHANGED <<clock, settings, topics, messages, pending, vectors, sched, hist,
                   flowmos, usage, turn, search, users>>

(* DELETE /api/flowmos/{flowmo_id} *)
DeleteFlowmo(u, id) ==
    /\ u \in users
    /\ id \in DOMAIN flowmos
    /\ LET held == id \in collections.flowmos IN
       IF id \notin OwnedBy(flowmos, u)
       THEN /\ requests' = Ended("delete_flowmo", u, id, held, 403)
            /\ UNCHANGED <<flowmos, collections>>
       ELSE \E library_raises \in LibraryRaises(held) :
              LET r == IF library_raises
                       THEN vector_delete_failed(Ended("delete_flowmo", u, id, held, 200))
                       ELSE Ended("delete_flowmo", u, id, held, 200)
              IN  /\ requests' = r
                  /\ IF r[1].raised
                     THEN UNCHANGED <<flowmos, collections>>
                     ELSE /\ collections' = delete_flowmo_vector(id)
                          /\ flowmos' = Deleted(flowmos, {id})
    /\ UNCHANGED <<clock, settings, topics, messages, pending, memories, vectors, sched,
                   hist, usage, turn, search, users>>

(* DELETE /api/flowmos/all: the user's rows, then the vector of each *)
DeleteAllFlowmos(u) ==
    /\ u \in users
    /\ OwnedBy(flowmos, u) # {}
    /\ LET flowmo_ids == OwnedBy(flowmos, u)
           held == flowmo_ids \subseteq collections.flowmos
       IN  \E library_raises \in LibraryRaises(held) :
              LET r == IF library_raises
                       THEN vector_delete_failed(Ended("delete_all_flowmos", u, 0, held, 200))
                       ELSE Ended("delete_all_flowmos", u, 0, held, 200)
              IN  /\ requests' = r
                  /\ flowmos' = Deleted(flowmos, flowmo_ids)
                  /\ collections' = IF r[1].raised
                                    THEN collections
                                    ELSE [collections EXCEPT !.flowmos = @ \ flowmo_ids]
    /\ UNCHANGED <<clock, settings, topics, messages, pending, memories, vectors, sched,
                   hist, usage, turn, search, users>>

(* DELETE /api/topics/{topic_id}: delete_memory_vector for each message id *)
(* (no message id names a vector record), then the topic row; memories and *)
(* flowmos only lose their reference to it (ON DELETE SET NULL)            *)
DeleteTopic(u, t) ==
    /\ u \in users
    /\ topics[t].present
    /\ IF TopicOwner(t) # u
       THEN /\ requests' = Ended("delete_topic", u, t, FALSE, 403)
            /\ UNCHANGED topics
       ELSE /\ requests' = Ended("delete_topic", u, t, FALSE, 200)
            /\ topics' = [topics EXCEPT ![t] = NoTopic]
    /\ UNCHANGED <<clock, settings, messages, pending, memories, vectors, sched, hist,
                   flowmos, usage, turn, collections, search, users>>

(* DELETE /api/admin/users/{user_id}: DELETE FROM users; the user's        *)
(* topics, memories and flowmos go with it (ON DELETE CASCADE)             *)
DeleteUser(u) ==
    /\ Admin \in users
    /\ u \in users
    /\ u # Admin
    /\ users' = users \ {u}
    /\ topics' = [t \in TopicIds |-> IF TopicOwner(t) = u THEN NoTopic ELSE topics[t]]
    /\ memories' = Deleted(memories, OwnedBy(memories, u))
    /\ flowmos' = Deleted(flowmos, OwnedBy(flowmos, u))
    /\ requests' = Ended("delete_user", Admin, u, FALSE, 200)
    /\ UNCHANGED <<clock, settings, messages, pending, vectors, sched, hist,
                   usage, turn, collections, search>>

NextStore ==
    \/ \E u \in Users : PostMemory(u)
    \/ \E u \in Users : PostFlowmo(u)
    \/ \E u \in Users, id \in 1..MaxEntries : DeleteMemory(u, id)
    \/ DeleteAllMemories
    \/ \E u \in Users, id \in 1..MaxEntries : DeleteFlowmo(u, id)
    \/ \E u \in Users : DeleteAllFlowmos(u)
    \/ \E u \in Users, t \in TopicIds : DeleteTopic(u, t)
    \/ \E u \in Users : DeleteUser(u)

SpecStore == InitStore /\ [][NextStore]_vars

-----------------------------------------------------------------------------
(* GET /api/flowmo/topic.  The endpoint is a plain function, so the server *)
(* runs each request on a pool thread and requests interleave between      *)
(* their statements.  Here the topics table is a sequence of rows          *)
(* [user_id, is_flowmo] and requests maps a client to its request's        *)
(* position and locals.                                                    *)

Clients == {1, 2}

NoCall == [pc |-> "idle", user |-> 0, row |-> 0, returned |-> 0]

(* SELECT * FROM topics WHERE user_id = ? AND is_flowmo = 1 *)
FlowmoTopicsOf(u) == {t \in DOMAIN topics : topics[t].user_id = u /\ topics[t].is_flowmo}

InitJournal ==
    /\ settings = [memory_extraction_enabled |-> FALSE, chat |-> TRUE, embedding |-> TRUE,
                   memory_silent_minutes |-> DEFAULT_MEMORY_SILENT_MINUTES]
    /\ clock = 0
    /\ topics = <<>>
    /\ messages = <<>>
    /\ pending = [t \in TopicIds |-> 0]
    /\ memories = <<>>
    /\ vectors = [id \in {} |-> ""]
    /\ sched = [s \in Instances |-> Idle]
    /\ hist = [committed |-> {}, applied |-> {}, reapplied |-> FALSE,
               quiet |-> {}, unwritten |-> {}]
    /\ flowmos = <<>>
    /\ usage = <<>>
    /\ turn = NoTurn
    /\ collections = NoCollections
    /\ search = NoSearch
    /\ users = Users
    /\ requests = [c \in Clients |-> NoCall]

(* POST /api/topics: an ordinary topic *)
PostTopic(u) ==
    /\ Len(topics) < MaxEntries
    /\ topics' = Append(topics, [user_id |-> u, is_flowmo |-> FALSE])
    /\ UNCHANGED <<clock, settings, messages, pending, memories, vectors, sched, hist,
                   flowmos, usage, turn, collections, search, storeVars>>

(* a request of user u arrives *)
GetFlowmoTopic(c, u) ==
    /\ requests[c].pc \in {"idle", "done"}
    /\ requests' = [requests EXCEPT ![c] = [NoCall EXCEPT !.pc = "select", !.user = u]]
    /\ UNCHANGED <<clock, settings, topics, messages, pending, memories, vectors, sched,
                   hist, flowmos, usage, turn, collections, search, users>>

(* get_or_create_flowmo_topic, lines 891-897: the SELECT and fetchone; an  *)
(* existing row is returned                                                *)
SelectFlowmoTopic(c) ==
    /\ requests[c].pc = "select"
    /\ IF FlowmoTopicsOf(requests[c].user) = {}
       THEN requests' = [requests EXCEPT ![c].pc = "insert"]
       ELSE \E row \in FlowmoTopicsOf(requests[c].user) :
              requests' = [requests EXCEPT ![c].pc = "done", ![c].row = row,
                                           ![c].returned = row]
    /\ UNCHANGED <<clock, settings, topics, messages, pending, memories, vectors, sched,
                   hist, flowmos, usage, turn, collections, search, users>>

(* lines 899-905: the INSERT, committed when the connection is left *)
InsertFlowmoTopic(c) ==
    /\ requests[c].pc = "insert"
    /\ Len(topics) < MaxEntries
    /\ topics' = Append(topics, [user_id |-> requests[c].user, is_flowmo |-> TRUE])
    /\ requests' = [requests EXCEPT ![c].pc = "done", ![c].returned = Len(topics) + 1]
    /\ UNCHANGED <<clock, settings, messages, pending, memories, vectors, sched, hist,
                   flowmos, usage, turn, collections, search, users>>

NextJournal ==
    \/ \E u \in Users : PostTopic(u)
    \/ \E c \in Clients, u \in Users : GetFlowmoTopic(c, u)
    \/ \E c \in Clients : SelectFlowmoTopic(c)
    \/ \E c \in Clients : InsertFlowmoTopic(c)

SpecJournal == InitJournal /\ [][NextJournal]_vars

-----------------------------------------------------------------------------
(* A chat turn: send_message from its first write on, one request at a     *)
(* time.  Topic 2 is the journal topic (is_flowmo = 1).  Time may pass     *)
(* between any two steps.  Title generation, which follows the usage loop, *)
(* writes only the topic's title and is left out.                          *)

JournalTopic == 2

is_flowmo_topic(t) == t = JournalTopic

(* datetime.fromisoformat of a stored text *)
fromisoformat(text) == (text[1] - 48) * 10 + (text[2] - 48)

(* get_messages: ORDER BY created_at ASC *)
get_messages(t) == Ascending(MessagesOf(t))

(* the gap is strictly greater than the interval *)
_is_new_flowmo_strict(last_message_time, now) ==
    IF last_message_time = <<>>
    THEN TRUE
    ELSE now - fromisoformat(last_message_time) > FLOWMO_INTERVAL_MINUTES

(* _is_new_flowmo; "not last_message_time" holds of None and of the empty  *)
(* text, both written <<>>                                                 *)
_is_new_flowmo(last_message_time, now) ==
    IF last_message_time = <<>>
    THEN TRUE
    ELSE now - fromisoformat(last_message_time) >= FLOWMO_INTERVAL_MINUTES

FlowmosOf(t) == {f \in DOMAIN flowmos : flowmos[f].topic_id = t}

(* SELECT created_at ... WHERE topic_id = ? ORDER BY created_at DESC LIMIT 1 *)
get_latest_flowmo_time(t) ==
    IF FlowmosOf(t) = {}
    THEN NULL
    ELSE LET f == CHOOSE f \in FlowmosOf(t) :
                      \A g \in FlowmosOf(t) : SqlLessEq(flowmos[g].created_at, flowmos[f].created_at)
         IN  flowmos[f].created_at

(* _retrieve_memories calls search_memories_and_flowmos(embedding, user_id, *)
(* top_k): three positional arguments for two parameters.                  *)
SearchParameters == 2
SearchArguments == 3
SearchBinds == SearchArguments <= SearchParameters

(* usage recorded before the completion call *)
NextStepUsageFirst(pc) ==
    CASE pc = "retrieve" -> "usage"
      [] pc = "usage" -> "chat"
      [] pc = "chat" -> "store"
      [] pc = "store" -> "idle"
      [] pc = "context" -> "chat"

(* the order of send_message's steps from line 475 on *)
NextStep(pc) ==
    CASE pc = "retrieve" -> "chat"
      [] pc = "context" -> "chat"
      [] pc = "chat" -> "store"
      [] pc = "store" -> "usage"
      [] pc = "usage" -> "idle"

Proceed(l) ==
    IF NextStep(l.pc) = "idle"
    THEN [l EXCEPT !.pc = "idle", !.outcome = "replied"]
    ELSE [l EXCEPT !.pc = NextStep(l.pc)]

InitTurn ==
    /\ \E embedding \in BOOLEAN :
          settings = [memory_extraction_enabled |-> FALSE, chat |-> TRUE,
                      embedding |-> embedding,
                      memory_silent_minutes |-> DEFAULT_MEMORY_SILENT_MINUTES]
    /\ clock = 0
    /\ topics = [t \in TopicIds |-> [NoTopic EXCEPT !.present = TRUE]]
    /\ messages = <<>>
    /\ pending = [t \in TopicIds |-> 0]
    /\ memories = <<[content |-> "m", source |-> "manual", memory_type |-> "chat",
                     source_topic_id |-> NULL, use_count |-> 0, last_used_at |-> NULL]>>
    /\ vectors = [id \in {} |-> ""]
    /\ sched = [s \in Instances |-> Idle]
    /\ hist = [committed |-> {}, applied |-> {}, reapplied |-> FALSE,
               quiet |-> {}, unwritten |-> {}]
    /\ NoRequest

(* lines 441-444: create_message(topic_id, "user", ...) and                *)
(* update_topic_active_time                                                *)
StartTurn(t) ==
    /\ turn.pc = "idle"
    /\ settings.chat
    /\ Len(messages) < MaxMessages
    /\ messages' = Append(messages, [topic_id |-> t, created_at |-> clock, role |-> "user"])
    /\ topics' = [topics EXCEPT ![t].last_active_at = clock]
    /\ turn' = [NoTurn EXCEPT !.pc = IF is_flowmo_topic(t) THEN "flowmo" ELSE "retrieve",
                              !.topic = t,
                              !.user_message = Len(messages) + 1]
    /\ UNCHANGED <<clock, settings, pending, memories, vectors, sched, hist,
                   flowmos, usage, collections, search, storeVars>>

(* _handle_flowmo_record.  store_flowmo_vector is called with four         *)
(* arguments and takes three: the TypeError is swallowed, no vector.       *)
HandleFlowmoRecord ==
    /\ turn.pc = "flowmo"
    /\ \E all \in get_messages(turn.topic) :
          LET last_message_time ==
                  IF Len(all) <= 1 THEN <<>>
                  ELSE isoformat(messages[all[Len(all) - 1]].created_at)
              new == _is_new_flowmo(last_message_time, clock)
          IN  /\ flowmos' = IF new
                            THEN Append(flowmos, [source |-> "chat", topic_id |-> turn.topic,
                                                  message_id |-> turn.user_message,
                                                  created_at |-> clock])
                            ELSE flowmos
              /\ turn' = [turn EXCEPT !.pc = "context", !.now = clock, !.created = new]
    /\ UNCHANGED <<clock, settings, topics, messages, pending, memories, vectors, sched,
                   hist, usage, collections, search, storeVars>>

(* _get_flowmo_context_messages; the context is kept as the set of the     *)
(* messages it holds                                                       *)
GetFlowmoContext ==
    /\ turn.pc = "context"
    /\ \E all \in get_messages(turn.topic) :
          LET alone == {turn.user_message}
              last_message_time == isoformat(messages[all[Len(all) - 1]].created_at)
              latest_flowmo_time == get_latest_flowmo_time(turn.topic)
              context_messages ==
                  {m \in Range(all) :
                      ~TextLess(isoformat(messages[m].created_at), isoformat(latest_flowmo_time))}
              context ==
                  IF Len(all) <= 1 THEN alone
                  ELSE IF _is_new_flowmo(last_message_time, clock) THEN alone
                  ELSE IF latest_flowmo_time = NULL THEN Range(all)
                  ELSE IF context_messages # {} THEN context_messages
                  ELSE alone
          IN  turn' = [turn EXCEPT !.pc = NextStep("context"), !.context = context]
    /\ UNCHANGED <<clock, settings, topics, messages, pending, memories, vectors, sched,
                   hist, flowmos, usage, collections, search, storeVars>>

(* the exception of _retrieve_memories ends the request *)
retrieval_failed_aborts(l) ==
    [l EXCEPT !.pc = "idle", !.retrieval = "raised", !.outcome = "retrieval_failed"]

(* lines 496-497: except Exception: logger.warning; memories_used and      *)
(* system_prompt keep their initial values                                 *)
retrieval_failed(l) ==
    [l EXCEPT !.pc = NextStep("retrieve"), !.retrieval = "raised"]

(* lines 479-495: the retrieved ids and, when there are any, the memory    *)
(* system prompt                                                           *)
retrieved(l, results) ==
    [l EXCEPT !.pc = NextStep("retrieve"), !.retrieval = "returned",
              !.memories_used = [i \in DOMAIN results |-> results[i].id],
              !.system_prompt = results # <<>>]

(* lines 460-498: the topic's messages are the context; retrieval is       *)
(* skipped without an embedding model; get_embedding or the search may     *)
(* raise, and the search call does not bind                                *)
Retrieve ==
    /\ turn.pc = "retrieve"
    /\ LET l == [turn EXCEPT !.context = MessagesOf(turn.topic)]
       IN  turn' \in
             IF ~settings.embedding
             THEN {[l EXCEPT !.pc = NextStep("retrieve"), !.retrieval = "skipped"]}
             ELSE IF ~SearchBinds
             THEN {retrieval_failed(l)}
             ELSE {retrieval_failed(l)}
                  \cup {retrieved(l, r) : r \in search_memories_and_flowmos(DEFAULT_MEMORY_TOP_K)}
    /\ UNCHANGED <<clock, settings, topics, messages, pending, memories, vectors, sched,
                   hist, flowmos, usage, collections, search, storeVars>>

(* line 503: chat_completion raises, the request ends with 503 *)
ChatFails ==
    /\ turn.pc = "chat"
    /\ turn' = [turn EXCEPT !.pc = "idle", !.outcome = "chat_failed"]
    /\ UNCHANGED <<clock, settings, topics, messages, pending, memories, vectors, sched,
                   hist, flowmos, usage, collections, search, storeVars>>

(* line 503: chat_completion returns *)
ChatReplies ==
    /\ turn.pc = "chat"
    /\ turn' = Proceed(turn)
    /\ UNCHANGED <<clock, settings, topics, messages, pending, memories, vectors, sched,
                   hist, flowmos, usage, collections, search, storeVars>>

(* lines 512-515: create_message(topic_id, "assistant", ...) and           *)
(* update_topic_active_time                                                *)
StoreReply ==
    /\ turn.pc = "store"
    /\ Len(messages) < MaxMessages
    /\ messages' = Append(messages, [topic_id |-> turn.topic, created_at |-> clock,
                                     role |-> "assistant"])
    /\ topics' = [topics EXCEPT ![turn.topic].last_active_at = clock]
    /\ turn' = Proceed([turn EXCEPT !.assistant_message = Len(messages) + 1])
    /\ UNCHANGED <<clock, settings, pending, memories, vectors, sched, hist,
                   flowmos, usage, collections, search, storeVars>>

(* record_memory_usage for one memory: the usage row and the counters *)
record_memory_usage(rows, memory_id) ==
    IF memory_id \in DOMAIN rows
    THEN [rows EXCEPT ![memory_id].use_count = @ + 1, ![memory_id].last_used_at = clock]
    ELSE rows

RECURSIVE RecordAll(_, _)
RecordAll(rows, ids) ==
    IF ids = <<>> THEN rows
    ELSE RecordAll(record_memory_usage(rows, Head(ids)), Tail(ids))

(* lines 518-519: for memory_id in memories_used: record_memory_usage      *)
RecordUsage ==
    /\ turn.pc = "usage"
    /\ usage' = usage \o [i \in DOMAIN turn.memories_used |->
                              [memory_id |-> turn.memories_used[i], topic_id |-> turn.topic,
                               message_id |-> turn.assistant_message, used_at |-> clock]]
    /\ memories' = RecordAll(memories, turn.memories_used)
    /\ turn' = Proceed(turn)
    /\ UNCHANGED <<clock, settings, topics, messages, pending, vectors, sched, hist,
                   flowmos, collections, search, storeVars>>

NextTurn ==
    \/ Tick
    \/ \E t \in TopicIds : StartTurn(t)
    \/ HandleFlowmoRecord
    \/ GetFlowmoContext
    \/ Retrieve
    \/ ChatFails
    \/ ChatReplies
    \/ StoreReply
    \/ RecordUsage

SpecTurn == InitTurn /\ [][NextTurn]_vars

-----------------------------------------------------------------------------
(* The memory_usage table under usage recordings and deletes.  Every       *)
(* connection sets PRAGMA foreign_keys = ON (database.py 40), so a delete  *)
(* takes the rows that reference the deleted row with it.  Here memories   *)
(* rows are [user_id, present, use_count, last_used_at], messages rows     *)
(* carry present (a deleted row keeps its place), and usage holds the      *)
(* memory_usage rows that exist.                                           *)

MaxUsage == 3

UsageOf(id) == {i \in DOMAIN usage : usage[i].memory_id = id}

(* ON DELETE CASCADE of memory_usage: the rows whose memory, topic or      *)
(* message is gone (schema, lines 122-134)                                 *)
Cascade(rows, memory_ids, topic_ids) ==
    LET Kept(r) == /\ r.memory_id \notin memory_ids
                   /\ r.topic_id \notin topic_ids
    IN  SelectSeq(rows, Kept)

(* ON DELETE CASCADE of messages.topic_id (line 87) *)
WithoutTopics(rows, topic_ids) ==
    [m \in DOMAIN rows |-> IF rows[m].topic_id \in topic_ids
                           THEN [rows[m] EXCEPT !.present = FALSE]
                           ELSE rows[m]]

InitUsage ==
    /\ settings = [memory_extraction_enabled |-> FALSE, chat |-> TRUE, embedding |-> TRUE,
                   memory_silent_minutes |-> DEFAULT_MEMORY_SILENT_MINUTES]
    /\ clock = 0
    /\ topics = [t \in TopicIds |-> [NoTopic EXCEPT !.present = TRUE]]
    /\ messages = <<>>
    /\ pending = [t \in TopicIds |-> 0]
    /\ memories = [u \in Users |-> [user_id |-> u, present |-> TRUE, use_count |-> 0,
                                     last_used_at |-> NULL]]
    /\ vectors = [id \in {} |-> ""]
    /\ sched = [s \in Instances |-> Idle]
    /\ hist = [committed |-> {}, applied |-> {}, reapplied |-> FALSE,
               quiet |-> {}, unwritten |-> {}]
    /\ NoRequest

(* database.create_message for the assistant's reply (main.py 512) *)
StoreMessage(t) ==
    /\ topics[t].present
    /\ Len(messages) < MaxMessages
    /\ messages' = Append(messages, [topic_id |-> t, created_at |-> clock,
                                     role |-> "assistant", present |-> TRUE])
    /\ UNCHANGED <<clock, settings, topics, pending, memories, vectors, sched, hist,
                   requestVars>>

(* database.record_memory_usage(memory_id, topic_id, message_id), as       *)
(* main.py 518-519 calls it with the turn's topic and its reply: the       *)
(* INSERT and the UPDATE commit together; the INSERT needs the three       *)
(* referenced rows                                                         *)
RecordMemoryUsage(memory_id, message_id) ==
    /\ memory_id \in Present(memories)
    /\ message_id \in DOMAIN messages
    /\ messages[message_id].present
    /\ Len(usage) < MaxUsage
    /\ usage' = Append(usage, [memory_id |-> memory_id,
                               topic_id |-> messages[message_id].topic_id,
                               message_id |-> message_id, used_at |-> clock])
    /\ memories' = record_memory_usage(memories, memory_id)
    /\ UNCHANGED <<clock, settings, topics, messages, pending, vectors, sched, hist,
                   flowmos, turn, collections, search, storeVars>>

(* database.delete_topic: DELETE FROM topics WHERE id = ?, with the        *)
(* topic's messages and the usage rows of the topic                        *)
DeleteTopicRow(t) ==
    /\ topics[t].present
    /\ topics' = [topics EXCEPT ![t] = NoTopic]
    /\ messages' = WithoutTopics(messages, {t})
    /\ usage' = Cascade(usage, {}, {t})
    /\ UNCHANGED <<clock, settings, pending, memories, vectors, sched, hist,
                   flowmos, turn, collections, search, storeVars>>

(* database.delete_memory: DELETE FROM memories WHERE id = ?, with the     *)
(* usage rows of the memory                                                *)
DeleteMemoryRow(id) ==
    /\ id \in Present(memories)
    /\ memories' = Deleted(memories, {id})
    /\ usage' = Cascade(usage, {id}, {})
    /\ UNCHANGED <<clock, settings, topics, messages, pending, vectors, sched, hist,
                   flowmos, turn, collections, search, storeVars>>

(* database.delete_all_memories: DELETE FROM memories *)
DeleteAllMemoryRows ==
    /\ Present(memories) # {}
    /\ memories' = Deleted(memories, DOMAIN memories)
    /\ usage' = Cascade(usage, DOMAIN memories, {})
    /\ UNCHANGED <<clock, settings, topics, messages, pending, vectors, sched, hist,
                   flowmos, turn, collections, search, storeVars>>

(* database.delete_user: DELETE FROM users WHERE id = ?, with the user's   *)
(* topics and memories and what references them                            *)
DeleteUserRow(u) ==
    /\ u \in users
    /\ u # Admin
    /\ LET topic_ids == {t \in TopicIds : TopicOwner(t) = u}
           memory_ids == OwnedBy(memories, u)
       IN  /\ users' = users \ {u}
           /\ topics' = [t \in TopicIds |-> IF t \in topic_ids THEN NoTopic ELSE topics[t]]
           /\ messages' = WithoutTopics(messages, topic_ids)
           /\ memories' = Deleted(memories, memory_ids)
           /\ usage' = Cascade(usage, memory_ids, topic_ids)
    /\ UNCHANGED <<clock, settings, pending, vectors, sched, hist,
                   flowmos, turn, collections, search, requests>>

NextUsage ==
    \/ \E t \in TopicIds : StoreMessage(t)
    \/ \E id \in Users, m \in 1..MaxMessages : RecordMemoryUsage(id, m)
    \/ \E t \in TopicIds : DeleteTopicRow(t)
    \/ \E id \in Users : DeleteMemoryRow(id)
    \/ DeleteAllMemoryRows
    \/ \E u \in Users : DeleteUserRow(u)

SpecUsage == InitUsage /\ [][NextUsage]_vars

-----------------------------------------------------------------------------
(* Extraction with two users.  Topic t belongs to user t; the memories     *)
(* table holds one manual memory, whose row carries the user_id of the     *)
(* user who posted it (database.create_memory); topic 1 holds a message    *)
(* that no run has read, and the clock stands still.                       *)

InitOwner ==
    /\ \E embedding \in BOOLEAN :
          settings = [memory_extraction_enabled |-> TRUE, chat |-> TRUE,
                      embedding |-> embedding, memory_silent_minutes |-> 0]
    /\ clock = 1
    /\ topics = [t \in TopicIds |->
                    IF t = 1 THEN [NoTopic EXCEPT !.present = TRUE, !.last_active_at = 0]
                    ELSE NoTopic]
    /\ messages = <<[topic_id |-> 1, created_at |-> 0]>>
    /\ pending = [t \in TopicIds |-> 0]
    /\ \E u \in Users :
          memories = <<[content |-> "m", source |-> "manual", memory_type |-> "chat",
                        source_topic_id |-> NULL, user_id |-> u]>>
    /\ \E stored \in BOOLEAN :
          vectors = IF stored THEN (1 :> "m") ELSE [id \in {} |-> ""]
    /\ sched = [s \in Instances |-> Idle]
    /\ hist = [committed |-> {}, applied |-> {}, reapplied |-> FALSE,
               quiet |-> {}, unwritten |-> {}]
    /\ NoRequest

NextOwner ==
    \/ \E t \in TopicIds : create_message(t)
    \/ \E t \in TopicIds : update_topic_active_time(t)
    \/ \E s \in Instances : CheckAndExtract(s)
    \/ \E s \in Instances : EndCycle(s)
    \/ \E s \in Instances : ExtractTopic(s)
    \/ \E s \in Instances : ChatRaises(s)
    \/ \E s \in Instances : ChatReturns(s)
    \/ \E s \in Instances : ApplyAdd(s)
    \/ \E s \in Instances : ApplyUpdate(s)
    \/ \E s \in Instances : StoreVector(s)
    \/ \E s \in Instances : VectorRaises(s)
    \/ \E s \in Instances : Commit(s)

SpecOwner == InitOwner /\ [][NextOwner]_vars

-----------------------------------------------------------------------------
(* Properties of the extraction pipeline *)

Cursor(t) == topics[t].last_processed_message_id

TodoIds(l) == {l.todo[k].id : k \in DOMAIN l.todo}

(* the step of _check_and_extract that reads the topics to process *)
CycleStarts(s) == sched[s].pc = "sleep" /\ sched'[s].pc = "loop"

(* a run of _extract_topic_memories that has ended, back in the topic loop *)
RunEnded(l) == l.pc = "loop" /\ l.topic.id \in TopicIds

(* C1: cursor monotonicity.  In every step, for every topic whose cursor   *)
(* is set, the cursor stays set and the created_at of the message it names *)
(* does not decrease.                                                      *)
C1_CursorMonotone ==
    [][\A t \in TopicIds :
          Cursor(t) # NULL =>
              /\ topics'[t].last_processed_message_id # NULL
              /\ messages'[topics'[t].last_processed_message_id].created_at
                    >= messages[Cursor(t)].created_at]_vars

(* a run has moved a cursor that was already set *)
C1_Witness ==
    \E s \in Instances :
        /\ RunEnded(sched[s])
        /\ sched[s].outcome = "completed"
        /\ sched[s].topic.last_processed_message_id # NULL
        /\ Cursor(sched[s].topic.id) # sched[s].topic.last_processed_message_id

(* C2: every message of a topic whose created_at is at or before that of   *)
(* the cursor message was in a batch whose run reached its commit.         *)
C2_CursorCoversOnlyCommitted ==
    \A t \in TopicIds :
        Cursor(t) # NULL =>
            \A m \in MessagesOf(t) :
                messages[m].created_at <= messages[Cursor(t)].created_at
                    => m \in hist.committed

(* C3: no message is in two batches whose instructions were both written,  *)
(* even in part, to the memories table.                                    *)
C3_AppliedOnce == ~hist.reapplied

(* C4: when the chat call has returned for the batch and the run has       *)
(* ended, the topic's cursor is the batch's last message and               *)
(* memory_processed_at is stamped.                                         *)
C4_CommitNeverSkipped ==
    \A s \in Instances :
        RunEnded(sched[s]) /\ sched[s].chat_returned /\ sched[s].result.kind = "object" =>
            /\ Cursor(sched[s].topic.id) = Last(sched[s].new_messages)
            /\ topics[sched[s].topic.id].memory_processed_at # NULL

(* C5: the cursor write is the last write of a run.  While the run is at   *)
(* the chat call or at a memory or vector write, the topic's cursor and    *)
(* stamp are those the run started with; the run is at the cursor write    *)
(* only after the chat call returned and both item loops were handled.     *)
C5_CursorWriteLast ==
    \A s \in Instances :
        /\ sched[s].pc \in {"chat", "add", "update", "vector"} =>
              /\ Cursor(sched[s].topic.id) = sched[s].topic.last_processed_message_id
              /\ topics[sched[s].topic.id].memory_processed_at
                    = sched[s].topic.memory_processed_at
              /\ Range(sched[s].new_messages) \cap hist.committed = {}
        /\ sched[s].pc = "commit" =>
              /\ sched[s].chat_returned
              /\ sched[s].handled = {"add", "update"}

(* a run that wrote to the memories table has committed its batch *)
C5_Witness ==
    \E s \in Instances :
        /\ RunEnded(sched[s])
        /\ sched[s].outcome = "completed"
        /\ sched[s].writes = 1
        /\ Range(sched[s].new_messages) \subseteq hist.committed

(* C6: when the chat call raised, the run has ended with no write to the   *)
(* memories table or the vector collection, the topic's cursor and stamp   *)
(* are those the run started with, the batch is still unprocessed, and the *)
(* topic is found again by a cycle for which it is silent.                 *)
C6_ChatFailureLeavesBatch ==
    \A s \in Instances :
        sched[s].chat_raised =>
            /\ sched[s].pc = "loop"
            /\ sched[s].writes = 0
            /\ sched[s].vector_writes = 0
            /\ Cursor(sched[s].topic.id) = sched[s].topic.last_processed_message_id
            /\ topics[sched[s].topic.id].memory_processed_at
                  = sched[s].topic.memory_processed_at
            /\ Range(sched[s].new_messages)
                  \subseteq get_unprocessed_messages(TopicRow(sched[s].topic.id))
            /\ \A now \in clock..MaxClock :
                  SqlLess(topics[sched[s].topic.id].last_active_at, now)
                      => sched[s].topic.id \in find_topics_need_processing(now)

(* the chat call raised while a memory existed that an answer could change *)
C6_Witness ==
    \E s \in Instances :
        /\ sched[s].chat_raised
        /\ sched[s].pc = "loop"
        /\ sched[s].new_messages # <<>>
        /\ memories # <<>>

(* C7: when the chat call returned a text that decodes neither directly    *)
(* nor through the {...} fallback and the run has ended, the cursor is the *)
(* batch's last message and memory_processed_at is stamped; no message of  *)
(* a committed batch is an unprocessed message of its topic.               *)
C7_ParseFailureAdvances ==
    /\ \A s \in Instances :
          RunEnded(sched[s]) /\ sched[s].chat_returned /\ Undecodable(sched[s].response) =>
              /\ Cursor(sched[s].topic.id) = Last(sched[s].new_messages)
              /\ topics[sched[s].topic.id].memory_processed_at # NULL
              /\ Range(sched[s].new_messages) \subseteq hist.committed
    /\ \A m \in hist.committed :
          m \notin get_unprocessed_messages(TopicRow(messages[m].topic_id))

(* an undecodable answer, and the batch is behind the cursor *)
C7_Witness ==
    \E s \in Instances :
        /\ RunEnded(sched[s])
        /\ sched[s].chat_returned
        /\ Undecodable(sched[s].response)
        /\ Cursor(sched[s].topic.id) = Last(sched[s].new_messages)
        /\ get_unprocessed_messages(TopicRow(sched[s].topic.id)) = {}

(* C8: from an undecodable answer on, the run writes nothing to the        *)
(* memories table or the vector collection and ends without an exception;  *)
(* the topic loop then still holds every selected topic it has not yet    *)
(* visited.                                                                *)
C8_NonJsonIsNothing ==
    \A s \in Instances :
        sched[s].chat_returned /\ Undecodable(sched[s].response) =>
            /\ sched[s].writes = 0
            /\ sched[s].vector_writes = 0
            /\ sched[s].outcome \in {"none", "completed"}
            /\ sched[s].pc = "loop" =>
                  /\ sched[s].outcome = "completed"
                  /\ TodoIds(sched[s]) = sched[s].selected \ sched[s].visited

(* an undecodable answer for one topic, a memory existing, and another     *)
(* topic of the same cycle still to come                                   *)
C8_Witness ==
    \E s \in Instances :
        /\ sched[s].pc = "loop"
        /\ sched[s].chat_returned
        /\ Undecodable(sched[s].response)
        /\ sched[s].todo # <<>>
        /\ memories # <<>>

(* C9: the topics a cycle takes up are exactly the topics T with           *)
(* last_active_at not null, last_active_at < now - silent_minutes (as      *)
(* datetimes) and memory_processed_at null or before last_active_at, each  *)
(* once; a topic with no recorded activity is not among them.              *)
C9_SelectedIffEligible ==
    [][\A s \in Instances :
          CycleStarts(s) =>
              LET eligible == {t \in TopicIds :
                      /\ topics[t].present
                      /\ topics[t].last_active_at # NULL
                      /\ topics[t].last_active_at < clock - settings.memory_silent_minutes
                      /\ \/ topics[t].memory_processed_at = NULL
                         \/ topics[t].last_active_at > topics[t].memory_processed_at}
              IN  /\ TodoIds(sched'[s]) = eligible
                  /\ Len(sched'[s].todo) = Cardinality(eligible)
                  /\ \A t \in TodoIds(sched'[s]) : topics[t].last_active_at # NULL]_vars

(* a cycle has taken up a topic that was processed before and has been     *)
(* active since                                                            *)
C9_Witness ==
    \E s \in Instances : \E t \in sched[s].selected :
        /\ sched[s].pc = "loop"
        /\ sched[s].visited = {}
        /\ topics[t].memory_processed_at # NULL
        /\ topics[t].last_active_at > topics[t].memory_processed_at

RunStarts(s, t) ==
    /\ sched[s].pc = "loop"
    /\ sched[s].todo # <<>>
    /\ Head(sched[s].todo).id = t
    /\ sched'[s].todo = Tail(sched[s].todo)

C12_TopicIsolation ==
    [][\A s \in Instances :
          /\ (sched[s].pc \in {"chat", "add", "update"} /\ sched'[s].outcome = "raised") =>
                /\ topics' = topics
                /\ memories' = memories
                /\ vectors' = vectors
                /\ sched'[s].pc = "loop"
                /\ sched'[s].todo = sched[s].todo
                /\ TodoIds(sched'[s]) = sched'[s].selected \ sched'[s].visited
          /\ (sched[s].pc \in {"chat", "add", "update", "vector", "commit"}
                 /\ sched'[s] # sched[s]) =>
                \A t \in TopicIds \ {sched[s].topic.id} : topics'[t] = topics[t]]_vars

(* a run has raised and another topic of the same cycle is still to come *)
C12_Witness ==
    \E s \in Instances :
        /\ sched[s].pc = "loop"
        /\ sched[s].outcome = "raised"
        /\ sched[s].chat_returned
        /\ sched[s].todo # <<>>

(* C13: when a run has ended after the chat call returned an object, every *)
(* add item with non-empty content has a memory row with source "chat",    *)
(* the item's content, and the item's type if that is one of the four      *)
(* types and "fact" otherwise.                                             *)
C13_AddCreatesRow ==
    \A s \in Instances :
        RunEnded(sched[s]) /\ sched[s].chat_returned /\ sched[s].result.kind = "object" =>
            \A k \in DOMAIN sched[s].result.add :
                LET mem == sched[s].result.add[k] IN
                mem.dict /\ mem.content # "" =>
                    \E id \in MemoryIds :
                        /\ memories[id].source = "chat"
                        /\ memories[id].content = mem.content
                        /\ memories[id].memory_type =
                              IF mem.type \in MemoryTypes THEN mem.type ELSE "fact"

C15_UpdateReconciled ==
    \A s \in Instances :
        (/\ RunEnded(sched[s])
         /\ sched[s].outcome = "completed"
         /\ sched[s].settings.embedding
         /\ ~sched[s].vector_raised
         /\ sched[s].writes = 1) =>
            \A k \in DOMAIN sched[s].result.update :
                LET mem == sched[s].result.update[k] IN
                (mem.dict /\ mem.content # "" /\ mem.id \in MemoryIds) =>
                    /\ memories[mem.id].content = mem.content
                    /\ mem.id \in DOMAIN vectors
                    /\ vectors[mem.id] = mem.content

-----------------------------------------------------------------------------
(* Properties of retrieval *)

Held == {e \in [collection : {"memories", "flowmos"}, id : 1..(Len(collections.memories) + Len(collections.flowmos))] :
            e.id \in DOMAIN collections[e.collection]}

Returned == {[collection |-> search.results[i].collection, id |-> search.results[i].id] :
                i \in DOMAIN search.results}

(* C16: the joint search returns min(k, records held) distinct records,    *)
(* nearest first, each with its distance, and no record left out is nearer *)
(* than a returned one, whichever collection holds it.                     *)
C16_RankingMerge ==
    search.top_k > 0 =>
        /\ Len(search.results) = Min({search.top_k, Cardinality(Held)})
        /\ Cardinality(Returned) = Len(search.results)
        /\ Returned \subseteq Held
        /\ \A i \in DOMAIN search.results :
              search.results[i].distance
                  = collections[search.results[i].collection][search.results[i].id].distance
        /\ \A i, j \in DOMAIN search.results :
              i < j => search.results[i].distance <= search.results[j].distance
        /\ \A i \in DOMAIN search.results : \A e \in Held \ Returned :
              search.results[i].distance <= collections[e.collection][e.id].distance

(* a search that left records out, returned records of both collections   *)
(* and put a journal record before a memory                                *)
C16_Witness ==
    /\ search.top_k = MaxTopK
    /\ Len(search.results) = search.top_k
    /\ Held \ Returned # {}
    /\ search.results[1].collection = "flowmos"
    /\ \E j \in DOMAIN search.results : search.results[j].collection = "memories"

-----------------------------------------------------------------------------
(* Properties of a chat turn *)

Handled == turn.pc \in {"context", "chat", "store", "usage"} /\ is_flowmo_topic(turn.topic)

(* the message before the turn's user message in its topic, 0 if none *)
Previous == Max({0} \cup {m \in MessagesOf(turn.topic) : m < turn.user_message})

EntriesOf(m) == {f \in DOMAIN flowmos : flowmos[f].message_id = m /\ flowmos[f].source = "chat"}

SessionStart == Max({flowmos[f].message_id : f \in FlowmosOf(turn.topic)})

(* C18: the context of a journal message is the message alone when it      *)
(* starts a new session, and otherwise every message of the topic from     *)
(* the session-starting message onward, that message included.             *)
C18_SessionContext ==
    turn.pc \in {"chat", "store", "usage"} /\ is_flowmo_topic(turn.topic) =>
        turn.context = IF turn.created
                       THEN {turn.user_message}
                       ELSE {m \in MessagesOf(turn.topic) : m >= SessionStart}

(* C19: neither retrieval nor any step other than the usage loop changes   *)
(* the memories table or the usage table; the usage loop runs only once    *)
(* the assistant reply is stored; a turn whose completion call fails ends  *)
(* with both tables as they were.                                          *)
C19_RetrievalReadOnly ==
    [][/\ turn.pc = "usage" =>
              /\ turn.assistant_message \in MessagesOf(turn.topic)
              /\ messages[turn.assistant_message].role = "assistant"
       /\ (usage' # usage \/ memories' # memories) => turn.pc = "usage"
       /\ turn'.outcome = "chat_failed" =>
              /\ usage' = usage
              /\ memories' = memories]_vars

(* a turn of an ordinary topic that attempted retrieval, failed at the     *)
(* completion call and left the tables as they were                        *)
C19_Witness ==
    /\ turn.pc = "idle"
    /\ turn.outcome = "chat_failed"
    /\ ~is_flowmo_topic(turn.topic)
    /\ turn.retrieval = "raised"
    /\ usage = <<>>
    /\ \A m \in DOMAIN memories : memories[m].use_count = 0

-----------------------------------------------------------------------------
(* Further properties of the background task *)

(* C25: while memory_extraction_enabled is false, a scheduler cycle        *)
(* returns at the gate: it selects no topic, no chat or embedding call is  *)
(* in flight, and no memory row, vector, cursor or processing stamp is     *)
(* written by it.                                                          *)
C25_ExtractionGate ==
    ~settings.memory_extraction_enabled =>
        /\ \A s \in Instances :
              sched[s] \in {Idle, [Idle EXCEPT !.outcome = "disabled"]}
        /\ \A t \in TopicIds :
              /\ Cursor(t) = NULL
              /\ topics[t].memory_processed_at = NULL
        /\ \A m \in MemoryIds : memories[m].source = "manual"
        /\ DOMAIN vectors = {}
        /\ hist.committed = {}
        /\ hist.applied = {}

(* a gated cycle has returned while a topic was due and a provider set *)
C25_Witness ==
    /\ ~settings.memory_extraction_enabled
    /\ settings.chat
    /\ \E s \in Instances : sched[s].outcome = "disabled"
    /\ find_topics_need_processing(clock - settings.memory_silent_minutes) # {}
    /\ memories # <<>>

-----------------------------------------------------------------------------
(* Further properties of a chat turn *)

-----------------------------------------------------------------------------
(* Further properties of retrieval *)

(* the record is one of the memories collection and its id names a row of *)
(* the memories table                                                      *)
HasMemoryRow(item) == item.collection = "memories" /\ item.id \in MemoryIds

-----------------------------------------------------------------------------
(* Properties of rows and their vector records *)

(* the collection a delete request's vector delete works on *)
CollectionOf(op) == IF op = "delete_memory" THEN "memories" ELSE "flowmos"

C23_VectorDeleteIdempotent ==
    [][(/\ requests' # requests
        /\ requests'[1].op \in {"delete_memory", "delete_flowmo"}
        /\ requests'[1].status # 403) =>
            /\ ~requests'[1].raised
            /\ requests'[1].status = 200
            /\ ~requests'[1].had_vector => collections' = collections
            /\ requests'[1].id \notin collections'[CollectionOf(requests'[1].op)]]_vars

(* a journal entry without a vector record was deleted, the library raised *)
(* and the request succeeded, while another entry kept its record          *)
C23_Witness ==
    /\ requests # <<>>
    /\ requests[1].op = "delete_flowmo"
    /\ ~requests[1].had_vector
    /\ requests[1].library_raised
    /\ requests[1].status = 200
    /\ ~flowmos[requests[1].id].present
    /\ collections.flowmos # {}

-----------------------------------------------------------------------------
(* The chat context of an ordinary topic: send_message, lines 441-467, and *)
(* send_message_stream, lines 565-591, which build it with the same        *)
(* statements.  Every write reads datetime.now(), which has moved on since *)
(* the write before it: the clock advances with each row.  chat_messages   *)
(* is the sequence of message ids whose role and content are sent.         *)

(* the configured limit of the deployment *)
MAX_CONTEXT_MESSAGES == 2

Roles == {"user", "assistant"}

NoChat == [pc |-> "idle", topic |-> 0, user_message |-> 0, chat_messages |-> <<>>,
           outcome |-> "none"]

(* items[-n:] *)
LastSlice(items, n) ==
    IF n = 0 THEN items
    ELSE SubSeq(items, (IF Len(items) > n THEN Len(items) - n ELSE 0) + 1, Len(items))

(* the first rows are kept *)
context_limit_first(all) ==
    IF Len(all) > MAX_CONTEXT_MESSAGES THEN SubSeq(all, 1, MAX_CONTEXT_MESSAGES) ELSE all

(* lines 462-464 *)
context_limit(all) ==
    IF Len(all) > MAX_CONTEXT_MESSAGES THEN LastSlice(all, MAX_CONTEXT_MESSAGES) ELSE all

(* rows that earlier turns can have left: a reply follows the user message *)
(* of its turn in its topic                                                *)
StoredByTurns(rows) ==
    \A i \in DOMAIN rows :
        rows[i].role = "assistant" =>
            \E j \in 1..(i - 1) :
                /\ rows[j].topic_id = rows[i].topic_id
                /\ rows[j].role = "user"
                /\ \A k \in (j + 1)..(i - 1) : rows[k].topic_id # rows[i].topic_id

InitContext ==
    /\ settings = [memory_extraction_enabled |-> FALSE, chat |-> TRUE, embedding |-> FALSE,
                   memory_silent_minutes |-> DEFAULT_MEMORY_SILENT_MINUTES]
    /\ \E n \in 0..MaxMessages :
          /\ \E topic_of \in [1..n -> TopicIds], role_of \in [1..n -> Roles] :
                messages = [i \in 1..n |-> [topic_id |-> topic_of[i], created_at |-> i,
                                            role |-> role_of[i]]]
          /\ clock = n
    /\ StoredByTurns(messages)
    /\ topics = [t \in TopicIds |-> [NoTopic EXCEPT !.present = TRUE]]
    /\ pending = [t \in TopicIds |-> 0]
    /\ memories = <<>>
    /\ vectors = [id \in {} |-> ""]
    /\ sched = [s \in Instances |-> Idle]
    /\ hist = [committed |-> {}, applied |-> {}, reapplied |-> FALSE,
               quiet |-> {}, unwritten |-> {}]
    /\ flowmos = <<>>
    /\ usage = <<>>
    /\ turn = NoChat
    /\ collections = NoCollections
    /\ search = NoSearch
    /\ users = Users
    /\ requests = <<>>

(* lines 441-467: the user message is saved, the topic touched, the        *)
(* messages of the topic read and cut                                      *)
SendMessage(t) ==
    /\ turn.pc = "idle"
    /\ ~is_flowmo_topic(t)
    /\ Len(messages) <= MaxMessages
    /\ clock' = clock + 1
    /\ messages' = Append(messages, [topic_id |-> t, created_at |-> clock', role |-> "user"])
    /\ topics' = [topics EXCEPT ![t].last_active_at = clock']
    /\ \E all \in get_messages(t)' :
          turn' = [NoChat EXCEPT !.pc = "chat", !.topic = t,
                                 !.user_message = Len(messages'),
                                 !.chat_messages = context_limit(all)]
    /\ UNCHANGED <<settings, pending, memories, vectors, sched, hist,
                   flowmos, usage, collections, search, storeVars>>

(* lines 501-509: the capability raises, HTTP 503; the user message stays *)
ContextChatFails ==
    /\ turn.pc = "chat"
    /\ turn' = [turn EXCEPT !.pc = "idle", !.outcome = "failed"]
    /\ UNCHANGED <<clock, settings, topics, messages, pending, memories, vectors, sched,
                   hist, flowmos, usage, collections, search, storeVars>>

(* lines 511-515: the reply is saved and the topic touched *)
ContextChatReplies ==
    /\ turn.pc = "chat"
    /\ clock' = clock + 1
    /\ messages' = Append(messages, [topic_id |-> turn.topic, created_at |-> clock',
                                     role |-> "assistant"])
    /\ topics' = [topics EXCEPT ![turn.topic].last_active_at = clock']
    /\ turn' = [turn EXCEPT !.pc = "idle", !.outcome = "replied"]
    /\ UNCHANGED <<settings, pending, memories, vectors, sched, hist,
                   flowmos, usage, collections, search, storeVars>>

NextContext ==
    \/ \E t \in TopicIds : SendMessage(t)
    \/ ContextChatFails
    \/ ContextChatReplies

SpecContext == InitContext /\ [][NextContext]_vars

-----------------------------------------------------------------------------
(* The context window of a run: _extract_topic_memories, lines 170-183,    *)
(* applied to stored messages.  The messages table holds rows written in   *)
(* time order; the cursor of topic 1 is unset or one of its messages;      *)
(* memory_context_messages is whatever integer PUT /api/settings was last  *)
(* given.  requests holds the locals of the last run.                      *)

DEFAULT_MEMORY_CONTEXT_MESSAGES == 6

MaxWindow == 2

(* ORDER BY created_at DESC LIMIT n over rows: n rows, descending, none of *)
(* the rows left out newer than a row taken                                *)
Descending(rows, n) ==
    {q \in [1..n -> rows] :
        /\ \A i, j \in DOMAIN q : i # j => q[i] # q[j]
        /\ \A i, j \in DOMAIN q :
              i < j => SqlLessEq(messages[q[j]].created_at, messages[q[i]].created_at)
        /\ \A m \in rows \ Range(q), i \in DOMAIN q :
              SqlLessEq(messages[m].created_at, messages[q[i]].created_at)}

(* LIMIT: a negative limit is no limit *)
Limit(limit, count) == IF limit < 0 \/ limit > count THEN count ELSE limit

Reversed(q) == [i \in DOMAIN q |-> q[Len(q) + 1 - i]]

get_context_messages(topic_id, last_processed_message_id, limit) ==
    IF last_processed_message_id = NULL THEN {<<>>}
    ELSE LET rows == {m \in MessagesOf(topic_id) :
                        SqlLessEq(messages[m].created_at,
                                  created_at_of(last_processed_message_id))}
         IN  {Reversed(q) : q \in Descending(rows, Limit(limit, Cardinality(rows)))}

InitWindow ==
    /\ settings = [memory_extraction_enabled |-> TRUE, chat |-> TRUE, embedding |-> FALSE,
                   memory_silent_minutes |-> 0,
                   memory_context_messages |-> DEFAULT_MEMORY_CONTEXT_MESSAGES]
    /\ clock = MaxClock
    /\ \E n \in 0..MaxMessages :
          \E topic_of \in [1..n -> TopicIds], at \in [1..n -> 0..2] :
              /\ \A i, j \in 1..n : i < j => at[i] <= at[j]
              /\ messages = [i \in 1..n |-> [topic_id |-> topic_of[i], created_at |-> at[i]]]
    /\ \E cursor \in {NULL} \cup MessagesOf(1) :
          topics = [t \in TopicIds |->
                      IF t = 1
                      THEN [NoTopic EXCEPT !.present = TRUE, !.last_active_at = 2,
                                           !.memory_processed_at =
                                               IF cursor = NULL THEN NULL ELSE 2,
                                           !.last_processed_message_id = cursor]
                      ELSE [NoTopic EXCEPT !.present = TRUE]]
    /\ pending = [t \in TopicIds |-> 0]
    /\ memories = <<>>
    /\ vectors = [id \in {} |-> ""]
    /\ sched = [s \in Instances |-> Idle]
    /\ hist = [committed |-> {}, applied |-> {}, reapplied |-> FALSE,
               quiet |-> {}, unwritten |-> {}]
    /\ NoRequest

(* update_settings, main.py 851-852: any integer is stored *)
PutContextMessages(n) ==
    /\ settings' = [settings EXCEPT !.memory_context_messages = n]
    /\ UNCHANGED <<clock, topics, messages, pending, memories, vectors, sched, hist,
                   requestVars>>

(* lines 170-183: the batch, the early return, the limit, the window *)
ReadWindow(t) ==
    /\ \E new_messages \in Ascending(get_unprocessed_messages(TopicRow(t))) :
          IF new_messages = <<>>
          THEN requests' = <<[topic |-> TopicRow(t), new_messages |-> <<>>,
                              context_limit |-> NULL, context_messages |-> <<>>,
                              fetched |-> FALSE]>>
          ELSE \E context_messages \in
                    get_context_messages(t, TopicRow(t).last_processed_message_id,
                                         settings.memory_context_messages) :
                  requests' = <<[topic |-> TopicRow(t), new_messages |-> new_messages,
                                 context_limit |-> settings.memory_context_messages,
                                 context_messages |-> context_messages,
                                 fetched |-> TRUE]>>
    /\ UNCHANGED <<clock, settings, topics, messages, pending, memories, vectors, sched,
                   hist, flowmos, usage, turn, collections, search, users>>

NextWindow ==
    \/ \E n \in (-1)..MaxWindow : PutContextMessages(n)
    \/ \E t \in TopicIds : ReadWindow(t)

SpecWindow == InitWindow /\ [][NextWindow]_vars

-----------------------------------------------------------------------------
(* Properties of the journal topic *)

(* C24: every user has at most one topic with is_flowmo = 1, and a         *)
(* get-or-create request that has returned returned a journal topic of     *)
(* its user and inserted one only when the user had none.                  *)
C24_OneJournalTopic ==
    /\ \A u \in Users : Cardinality(FlowmoTopicsOf(u)) <= 1
    /\ \A c \in Clients :
          requests[c].pc = "done" => requests[c].returned \in FlowmoTopicsOf(requests[c].user)

-----------------------------------------------------------------------------
(* Properties of the chat context *)

-----------------------------------------------------------------------------
(* Properties of two background tasks on one store *)

(* C28: with two tasks a topic's cursor changes only in the commit of one  *)
(* of them, to the newest message of that task's batch.  It can move back  *)
(* to an earlier message, and does so only when the committing task's      *)
(* topic row is stale: the cursor it read when its cycle began is no       *)
(* longer the topic's cursor, the other task having committed since.       *)
C28_RegressNeedsStaleSnapshot ==
    [][\A t \in TopicIds :
          topics'[t].last_processed_message_id # Cursor(t)
          => \E s \in Schedulers :
                /\ sched[s].pc = "commit"
                /\ sched'[s].pc # "commit"
                /\ sched[s].topic.id = t
                /\ topics'[t].last_processed_message_id \in Range(sched[s].new_messages)
                /\ \A m \in Range(sched[s].new_messages) :
                      messages[m].created_at
                          <= messages[topics'[t].last_processed_message_id].created_at
                /\ (/\ Cursor(t) # NULL
                    /\ messages[topics'[t].last_processed_message_id].created_at
                          < messages[Cursor(t)].created_at)
                   => sched[s].topic.last_processed_message_id # Cursor(t)]_vars

(* the cursor is behind a message that a commit has covered *)
C28_Witness ==
    \E t \in TopicIds :
        /\ Cursor(t) # NULL
        /\ \E m \in hist.committed \cap MessagesOf(t) :
              messages[m].created_at > messages[Cursor(t)].created_at

-----------------------------------------------------------------------------
(* Properties of the task's life *)

(* C29: once the task is stopped, whether in its sleep or by the end of    *)
(* the process in the middle of a run, the cursor and stamp of the topic   *)
(* of its last run are those the run read, or the cursor is the last       *)
(* message of the run's batch and the chat call had returned and both item *)
(* loops had been handled; and a stopped task takes no further step and    *)
(* no cursor or stamp changes.                                             *)
C29_ShutdownSafety ==
    /\ [](\A s \in Instances :
            sched[s].pc = "stopped" /\ sched[s].topic.id \in TopicIds =>
                \/ /\ Cursor(sched[s].topic.id) = sched[s].topic.last_processed_message_id
                   /\ topics[sched[s].topic.id].memory_processed_at
                         = sched[s].topic.memory_processed_at
                \/ /\ Cursor(sched[s].topic.id) = Last(sched[s].new_messages)
                   /\ sched[s].chat_returned
                   /\ sched[s].handled = {"add", "update"})
    /\ [][\A s \in Instances :
            sched[s].pc = "stopped" =>
                /\ sched'[s] = sched[s]
                /\ \A t \in TopicIds :
                      /\ topics'[t].last_processed_message_id = Cursor(t)
                      /\ topics'[t].memory_processed_at = topics[t].memory_processed_at]_vars

(* the process ended in a run that had written to the memories table and   *)
(* not yet committed, and a message has arrived since                      *)
C29_Witness ==
    \E s \in Instances :
        /\ sched[s].pc = "stopped"
        /\ sched[s].outcome = "none"
        /\ sched[s].writes = 1
        /\ Range(sched[s].new_messages) \cap hist.committed = {}
        /\ MessagesOf(sched[s].topic.id) \ Range(sched[s].new_messages) # {}

(* C30: a failure does not end the loop.  After an exception of the cycle  *)
(* outside a topic's run the task is in its sleep and the next cycle can   *)
(* start; after an exception in a topic's run the topic loop goes on; and  *)
(* the task ends only by stop() or with the process, never in a step that  *)
(* records a failure.                                                      *)
C30_LoopSurvivesFailures ==
    /\ [](\A s \in Instances :
            sched[s].pc # "stopped" =>
                /\ sched[s].outcome = "cycle_raised" =>
                      sched[s].pc = "sleep" /\ ENABLED CheckAndExtract(s)
                /\ sched[s].outcome = "raised" =>
                      sched[s].pc = "loop" /\ ENABLED (ExtractTopic(s) \/ EndCycle(s)))
    /\ [][\A s \in Instances :
            sched[s].pc # "stopped" /\ sched'[s].pc = "stopped" =>
                sched'[s] = [sched[s] EXCEPT !.pc = "stopped"]]_vars

(* a cycle has failed while a silent topic waits for extraction *)
C30_Witness ==
    \E s \in Instances :
        /\ sched[s].pc = "sleep"
        /\ sched[s].outcome = "cycle_raised"
        /\ extraction_enabled
        /\ find_topics_need_processing(clock - settings.memory_silent_minutes) # {}

-----------------------------------------------------------------------------
(* Properties of the batch and the context window *)

(* C31: the batch a run reads is, without repetition and ascending in      *)
(* created_at, every message of the topic when the topic row it was given  *)
(* has no cursor, and otherwise exactly the topic's messages created       *)
(* strictly after the cursor message; and once every message of a topic    *)
(* was in a committed batch, no message of the topic is after the cursor.  *)
C31_UnprocessedBatch ==
    /\ [][\A s \in Instances :
            (sched[s].pc = "loop" /\ sched[s].todo # <<>> /\ sched'[s] # sched[s]) =>
                LET topic == Head(sched[s].todo)
                    cursor == topic.last_processed_message_id
                    batch == sched'[s].new_messages
                IN  /\ Range(batch) =
                          IF cursor = NULL THEN MessagesOf(topic.id)
                          ELSE {m \in MessagesOf(topic.id) :
                                  messages[m].created_at > messages[cursor].created_at}
                    /\ Len(batch) = Cardinality(Range(batch))
                    /\ \A i, j \in DOMAIN batch :
                          i < j => messages[batch[i]].created_at
                                      <= messages[batch[j]].created_at]_vars
    /\ [](\A t \in TopicIds :
            (Cursor(t) # NULL /\ MessagesOf(t) \subseteq hist.committed) =>
                /\ get_unprocessed_messages(TopicRow(t)) = {}
                /\ \A m \in MessagesOf(t) :
                      messages[m].created_at <= messages[Cursor(t)].created_at)

(* a run holds a batch read behind a cursor, with more than one message *)
C31_Witness ==
    \E s \in Instances :
        /\ sched[s].pc = "chat"
        /\ sched[s].topic.last_processed_message_id # NULL
        /\ Len(sched[s].new_messages) > 1

(* C32: the window a run fetched holds at most memory_context_messages     *)
(* messages (none for a negative setting), all of the run's topic and      *)
(* created at or before the cursor message, oldest first; no message at or *)
(* before the cursor that was left out is newer than one in the window,    *)
(* and none is left out while the window is not full; the window is empty  *)
(* without a cursor and shares no message with the batch.                  *)
C32_ContextWindow ==
    \A k \in DOMAIN requests :
        requests[k].fetched =>
            LET r == requests[k]
                window == r.context_messages
                cursor == r.topic.last_processed_message_id
                before == IF cursor = NULL THEN {}
                          ELSE {m \in MessagesOf(r.topic.id) :
                                  messages[m].created_at <= messages[cursor].created_at}
            IN  /\ Len(window) <= (IF r.context_limit < 0 THEN 0 ELSE r.context_limit)
                /\ Range(window) \subseteq before
                /\ Len(window) = Cardinality(Range(window))
                /\ \A i, j \in DOMAIN window :
                      i < j => messages[window[i]].created_at
                                  <= messages[window[j]].created_at
                /\ \A m \in before \ Range(window) :
                      /\ Len(window) = r.context_limit
                      /\ \A i \in DOMAIN window :
                            messages[m].created_at <= messages[window[i]].created_at
                /\ Range(window) \cap Range(r.new_messages) = {}

-----------------------------------------------------------------------------
(* Further properties of a run *)

(* C33: whatever text the chat call returned, the run does not end by an   *)
(* exception of the parse or of the item loops.  Stated for answers with   *)
(* no add item that reaches create_extracted_memory, whose call raises for *)
(* a reason of its own.                                                    *)
C33_ParseAndApplyTotal ==
    \A s \in Instances :
        (/\ sched[s].chat_returned
         /\ \A k \in DOMAIN sched[s].result.add :
               ~sched[s].result.add[k].dict \/ sched[s].result.add[k].content = "")
        => sched[s].outcome # "raised"

(* C34: a run that found no chat provider or model made no chat call and   *)
(* no write, its batch is not committed and the topic's cursor and stamp   *)
(* are those it read, so the topic is found by every cycle for which it is *)
(* silent; and without a provider no topic ever gets a cursor or a stamp.  *)
C34_UnconfiguredLeavesTopic ==
    /\ \A s \in Instances :
          sched[s].outcome = "unconfigured" =>
              LET t == sched[s].topic.id
              IN  /\ sched[s].new_messages # <<>>
                  /\ ~sched[s].chat_returned /\ ~sched[s].chat_raised
                  /\ sched[s].writes = 0 /\ sched[s].vector_writes = 0
                  /\ Range(sched[s].new_messages) \cap hist.committed = {}
                  /\ Cursor(t) = sched[s].topic.last_processed_message_id
                  /\ topics[t].memory_processed_at = sched[s].topic.memory_processed_at
                  /\ topics[t].last_active_at < clock - settings.memory_silent_minutes
                        => t \in find_topics_need_processing(
                                    clock - settings.memory_silent_minutes)
    /\ ~settings.chat =>
          /\ hist.committed = {} /\ hist.applied = {}
          /\ \A t \in TopicIds :
                Cursor(t) = NULL /\ topics[t].memory_processed_at = NULL

(* the run returned for want of a provider, and the topic is silent again  *)
(* after a further message                                                 *)
C34_Witness ==
    \E s \in Instances :
        /\ sched[s].outcome = "unconfigured"
        /\ MessagesOf(sched[s].topic.id) \ Range(sched[s].new_messages) # {}
        /\ sched[s].topic.id \in find_topics_need_processing(
                                    clock - settings.memory_silent_minutes)

(* C35: no message is left behind.  When the task sleeps and every message *)
(* written has touched its topic, a topic holding a message created after  *)
(* its cursor message (or any message, with no cursor) still satisfies the *)
(* condition under which a cycle selects it once it is silent: it has no   *)
(* stamp or was active after its stamp.  Otherwise no cycle reads the      *)
(* message until someone writes to the topic again.                        *)
C35_NoStrandedMessage ==
    \A t \in TopicIds :
        (/\ topics[t].present
         /\ pending[t] = 0
         /\ \A s \in Instances : sched[s].pc = "sleep"
         /\ \E m \in MessagesOf(t) :
               \/ Cursor(t) = NULL
               \/ messages[m].created_at > messages[Cursor(t)].created_at)
        => \/ topics[t].memory_processed_at = NULL
           \/ topics[t].memory_processed_at < topics[t].last_active_at

-----------------------------------------------------------------------------
(* Properties of start() and stop() *)

Active == {id \in DOMAIN requests.tasks : requests.tasks[id] \in {"created", "sleeping"}}

(* C36: at most one task can still run a cycle, and there is one exactly   *)
(* while running is set, and it is _task; a start() call creates a task    *)
(* only when running was clear, a call while running creates none, and a   *)
(* stop() call creates none and leaves no task that can run a cycle.       *)
C36_OneLoop ==
    /\ [](/\ Cardinality(Active) <= 1
          /\ requests.running <=> Active # {}
          /\ Active \subseteq {requests._task})
    /\ [][/\ Len(requests'.tasks) > Len(requests.tasks) =>
                /\ ~requests.running
                /\ Len(requests'.tasks) = Len(requests.tasks) + 1
          /\ requests'.last \in {"stopped_nothing", "stopping"} /\ requests' # requests =>
                {id \in DOMAIN requests'.tasks :
                    requests'.tasks[id] \in {"created", "sleeping"}} = {}]_vars

(* a third task runs its cycles after two stops, while a stop() call still *)
(* awaits the second                                                       *)
C36_Witness ==
    /\ Len(requests.tasks) = MaxTasks
    /\ requests.tasks[MaxTasks] = "sleeping"
    /\ requests.awaited # {}
    /\ requests.last = "start_returned"

-----------------------------------------------------------------------------
(* Properties of the usage table *)

(* C37: every memory row's use_count is the number of memory_usage rows    *)
(* that reference it, after any usage recordings and deletes of topics,    *)
(* memories and users.                                                     *)
C37_UseCountIsUsageRows ==
    \A id \in Present(memories) : memories[id].use_count = Cardinality(UsageOf(id))

-----------------------------------------------------------------------------
(* Properties of the memory endpoints *)

(* C38: a request removes a memory row only of the user who makes it (the  *)
(* administrator's delete of a user aside), and a memory vector record     *)
(* only of a row of that user.                                             *)
C38_OnlyOwnRemoved ==
    [][\A id \in Present(memories) :
          (\/ id \notin Present(memories')
           \/ id \in collections.memories /\ id \notin collections'.memories)
          => \/ requests'[1].op = "delete_user"
             \/ requests'[1].user = memories[id].user_id]_vars

-----------------------------------------------------------------------------
(* Properties of extraction between users *)

(* C39: a run on a topic writes only memories of the topic's owner: a row  *)
(* or vector it rewrites belongs to the owner, and a row it creates        *)
(* carries the owner's user_id.                                            *)
C39_RunWritesOwnersMemories ==
    [][\A s \in Instances :
          sched[s].pc \in {"add", "update", "vector"} =>
             /\ \A id \in MemoryIds :
                   (\/ memories'[id] # memories[id]
                    \/ id \in DOMAIN vectors /\ vectors'[id] # vectors[id])
                   => memories[id].user_id = TopicOwner(sched[s].topic.id)
             /\ Len(memories') > Len(memories) =>
                   /\ "user_id" \in DOMAIN memories'[Len(memories')]
                   /\ memories'[Len(memories')].user_id = TopicOwner(sched[s].topic.id)]_vars

====
